---- MODULE Spec2Model ----
(***************************************************************************)
(* quick-lint: configuration resolution.                                   *)
(*                                                                         *)
(* JavaScript values are modelled with reference semantics.  A value is a  *)
(* primitive or a reference to a heap cell; a heap cell is a plain object  *)
(* (a mapping from keys to values), an array (a sequence of values) or an  *)
(* object whose prototype is not Object.prototype.  The heap is a sequence *)
(* of cells and allocation appends to it, so object identity is the        *)
(* address and aliasing between configurations is visible.                 *)
(***************************************************************************)
EXTENDS Integers, Sequences, FiniteSets, Bags, TLC

----------------------------------------------------------------------------
(* JavaScript values *)

Undefined == [t |-> "undefined", s |-> "", n |-> 0]
Null      == [t |-> "null", s |-> "", n |-> 0]
Num(i)    == [t |-> "number", s |-> "", n |-> i]
Str(x)    == [t |-> "string", s |-> x, n |-> 0]
Bool(b)   == [t |-> "boolean", s |-> "", n |-> IF b THEN 1 ELSE 0]
Ref(a)    == [t |-> "object", s |-> "", n |-> a]

IsRef(v) == v.t = "object"

NoFields == [k \in {} |-> Undefined]

ObjCell(f)  == [kind |-> "object", fields |-> f, elems |-> <<>>]
ArrCell(e)  == [kind |-> "array", fields |-> NoFields, elems |-> e]
InstCell(f) == [kind |-> "instance", fields |-> f, elems |-> <<>>]

\* obj[key]: undefined when the object has no such property
Get(cell, key) == IF key \in DOMAIN cell.fields THEN cell.fields[key] ELSE Undefined

\* obj[key] = v
Put(cell, key, v) ==
    [cell EXCEPT !.fields = [k \in (DOMAIN cell.fields) \cup {key} |->
                                IF k = key THEN v ELSE cell.fields[k]]]

\* Truthiness of a value (ToBoolean)
Truthy(v) ==
    CASE v.t = "undefined" -> FALSE
      [] v.t = "null"      -> FALSE
      [] v.t = "number"    -> v.n # 0
      [] v.t = "string"    -> v.s # ""
      [] v.t = "boolean"   -> v.n = 1
      [] OTHER             -> TRUE

RECURSIVE SetToSeq(_)
SetToSeq(S) ==
    IF S = {} THEN <<>>
    ELSE LET x == CHOOSE y \in S : TRUE IN <<x>> \o SetToSeq(S \ {x})

\* Object.keys(obj): the own enumerable keys, in one fixed order.  The merge
\* loop reads and assigns result[key] only, so the order of the keys decides
\* nothing but the addresses of the cells allocated on the way.
ObjectKeys(cell) == SetToSeq(DOMAIN cell.fields)

Range(q) == {q[i] : i \in 1..Len(q)}

----------------------------------------------------------------------------
(* src/src/config/defaults.ts *)

defaultConfigHeap ==
  <<
    \* address 1
    ObjCell("eslint" :> Ref(2)
         @@ "prettier" :> Ref(14)
         @@ "commitlint" :> Ref(15)
         @@ "sonarqube" :> Ref(18)
         @@ "husky" :> Ref(24)
         @@ "ide" :> Ref(26)),
    \* address 2
    ObjCell("enabled" :> Bool(TRUE)
         @@ "rules" :> Ref(3)
         @@ "extends" :> Ref(12)
         @@ "ignorePatterns" :> Ref(13)
         @@ "react" :> Bool(TRUE)
         @@ "typescript" :> Bool(TRUE)),
    \* address 3
    ObjCell("no-debugger" :> Str("error")
         @@ "no-duplicate-case" :> Str("error")
         @@ "no-dupe-keys" :> Str("error")
         @@ "no-dupe-args" :> Str("error")
         @@ "no-unreachable" :> Str("error")
         @@ "no-constant-condition" :> Str("warn")
         @@ "no-empty" :> Str("warn")
         @@ "no-extra-boolean-cast" :> Str("warn")
         @@ "no-self-compare" :> Str("error")
         @@ "no-template-curly-in-string" :> Str("warn")
         @@ "no-loss-of-precision" :> Str("error")
         @@ "no-unsafe-optional-chaining" :> Str("error")
         @@ "no-unused-private-class-members" :> Str("warn")
         @@ "eqeqeq" :> Ref(4)
         @@ "no-var" :> Str("error")
         @@ "prefer-const" :> Str("warn")
         @@ "no-console" :> Str("warn")
         @@ "no-eval" :> Str("error")
         @@ "no-implied-eval" :> Str("error")
         @@ "no-new-wrappers" :> Str("error")
         @@ "no-throw-literal" :> Str("error")
         @@ "no-useless-catch" :> Str("warn")
         @@ "no-useless-return" :> Str("warn")
         @@ "no-useless-rename" :> Str("warn")
         @@ "no-useless-computed-key" :> Str("warn")
         @@ "curly" :> Ref(6)
         @@ "no-else-return" :> Ref(7)
         @@ "no-param-reassign" :> Str("warn")
         @@ "prefer-template" :> Str("warn")
         @@ "object-shorthand" :> Ref(9)
         @@ "prefer-arrow-callback" :> Str("warn")
         @@ "no-unneeded-ternary" :> Str("warn")
         @@ "no-lonely-if" :> Str("warn")
         @@ "prefer-destructuring" :> Ref(10)),
    \* address 4
    ArrCell(<<Str("error"), Str("always"), Ref(5)>>),
    \* address 5
    ObjCell("null" :> Str("ignore")),
    \* address 6
    ArrCell(<<Str("warn"), Str("multi-line")>>),
    \* address 7
    ArrCell(<<Str("warn"), Ref(8)>>),
    \* address 8
    ObjCell("allowElseIf" :> Bool(FALSE)),
    \* address 9
    ArrCell(<<Str("warn"), Str("always")>>),
    \* address 10
    ArrCell(<<Str("warn"), Ref(11)>>),
    \* address 11
    ObjCell("object" :> Bool(TRUE)
         @@ "array" :> Bool(FALSE)),
    \* address 12
    ArrCell(<<>>),
    \* address 13
    ArrCell(<<Str("node_modules"), Str("dist"), Str("build"), Str(".next"), Str("coverage"), Str("*.min.js")>>),
    \* address 14
    ObjCell("enabled" :> Bool(TRUE)
         @@ "semi" :> Bool(TRUE)
         @@ "singleQuote" :> Bool(TRUE)
         @@ "trailingComma" :> Str("all")
         @@ "tabWidth" :> Num(2)
         @@ "printWidth" :> Num(100)
         @@ "arrowParens" :> Str("always")
         @@ "endOfLine" :> Str("lf")
         @@ "bracketSpacing" :> Bool(TRUE)
         @@ "jsxSingleQuote" :> Bool(FALSE)),
    \* address 15
    ObjCell("enabled" :> Bool(TRUE)
         @@ "extends" :> Ref(16)
         @@ "rules" :> Ref(17)),
    \* address 16
    ArrCell(<<Str("@commitlint/config-conventional")>>),
    \* address 17
    ObjCell(NoFields),
    \* address 18
    ObjCell("enabled" :> Bool(TRUE)
         @@ "rules" :> Ref(19)
         @@ "report" :> Ref(23)),
    \* address 19
    ObjCell("sonarjs/cognitive-complexity" :> Ref(20)
         @@ "sonarjs/no-duplicate-string" :> Ref(21)),
    \* address 20
    ArrCell(<<Str("warn"), Num(15)>>),
    \* address 21
    ArrCell(<<Str("warn"), Ref(22)>>),
    \* address 22
    ObjCell("threshold" :> Num(3)),
    \* address 23
    ObjCell("format" :> Str("html")
         @@ "outputDir" :> Str("./reports")),
    \* address 24
    ObjCell("enabled" :> Bool(TRUE)
         @@ "hooks" :> Ref(25)),
    \* address 25
    ObjCell("pre-commit" :> Str("npx quick-lint lint --staged")
         @@ "commit-msg" :> Str("npx quick-lint commitlint --edit \"$1\"")),
    \* address 26
    ObjCell("generateConfigs" :> Bool(TRUE))
  >>

defaultConfig == Ref(1)

----------------------------------------------------------------------------
(* src/src/utils/merge.ts *)

\* variant: the prototype comparison is left out
isPlainObjectAnyPrototype(h, value) ==
    /\ IsRef(value)
    /\ h[value.n].kind \in {"object", "instance"}

\* variant: no value counts as a plain object
isPlainObjectNever(h, value) == FALSE

isPlainObject(h, value) ==
    /\ IsRef(value)
    /\ h[value.n].kind = "object"

ArrayIsArray(h, value) ==
    /\ IsRef(value)
    /\ h[value.n].kind = "array"

\* variant: the spread without the Set
SetSpreadKeepAll(q) == q

\* [...new Set(q)]: the first occurrence of every element, in order.
\* Set membership is SameValueZero: primitives by value, objects by identity.
RECURSIVE SetSpread(_)
SetSpread(q) ==
    IF q = <<>> THEN <<>>
    ELSE LET front == SetSpread(SubSeq(q, 1, Len(q) - 1))
             last  == q[Len(q)]
         IN  IF last \in Range(front) THEN front ELSE Append(front, last)

\* variant: the object itself instead of a copy
SpreadAlias(h, obj) == [heap |-> h, ret |-> obj]

\* { ...obj }: a new object holding the own properties of obj
Spread(h, obj) ==
    [heap |-> Append(h, ObjCell(h[obj.n].fields)), ret |-> Ref(Len(h) + 1)]

\* variant: an undefined override value is assigned like any other
isUndefinedNever(value) == FALSE

\* sourceVal === undefined
isUndefined(value) == value = Undefined

RECURSIVE deepMerge(_, _, _)
RECURSIVE MergeKeys(_, _, _, _)
RECURSIVE MergeSources(_, _, _)

\* The body of the inner loop for one key: result[key] is assigned in heap h.
MergeKey(h, result, source, key) ==
    LET targetVal == Get(h[result.n], key)
        sourceVal == Get(h[source.n], key)
    IN  IF isUndefined(sourceVal) THEN h
        ELSE IF isPlainObject(h, targetVal) /\ isPlainObject(h, sourceVal)
        THEN LET sub == deepMerge(h, targetVal, <<sourceVal>>)
             IN  [sub.heap EXCEPT ![result.n] = Put(@, key, sub.ret)]
        ELSE IF ArrayIsArray(h, targetVal) /\ ArrayIsArray(h, sourceVal)
        THEN LET union == SetSpread(h[targetVal.n].elems \o h[sourceVal.n].elems)
                 h1    == Append(h, ArrCell(union))
             IN  [h1 EXCEPT ![result.n] = Put(@, key, Ref(Len(h1)))]
        ELSE [h EXCEPT ![result.n] = Put(@, key, sourceVal)]

\* for (const key of Object.keys(source))
MergeKeys(h, result, source, keys) ==
    IF keys = <<>> THEN h
    ELSE MergeKeys(MergeKey(h, result, source, Head(keys)), result, source, Tail(keys))

\* variant: the sources are applied from the last to the first
RECURSIVE MergeSourcesRightToLeft(_, _, _)
MergeSourcesRightToLeft(h, result, sources) ==
    IF sources = <<>> THEN h
    ELSE LET source == sources[Len(sources)]
             h1 == IF ~Truthy(source) \/ ~IsRef(source) THEN h
                   ELSE MergeKeys(h, result, source, ObjectKeys(h[source.n]))
         IN  MergeSourcesRightToLeft(h1, result, SubSeq(sources, 1, Len(sources) - 1))

\* for (const source of sources)
MergeSources(h, result, sources) ==
    IF sources = <<>> THEN h
    ELSE LET source == Head(sources)
             h1 == IF ~Truthy(source) \/ ~IsRef(source) THEN h
                   ELSE MergeKeys(h, result, source, ObjectKeys(h[source.n]))
         IN  MergeSources(h1, result, Tail(sources))

deepMerge(h, target, sources) ==
    LET result == Spread(h, target)
    IN  [heap |-> MergeSources(result.heap, result.ret, sources), ret |-> result.ret]

----------------------------------------------------------------------------
(* Deep equality of two values in heap h *)

RECURSIVE DeepEqual(_, _, _)
DeepEqual(h, v1, v2) ==
    IF v1 = v2 THEN TRUE
    ELSE IF ~IsRef(v1) \/ ~IsRef(v2) THEN FALSE
    ELSE LET c1 == h[v1.n]
             c2 == h[v2.n]
         IN  /\ c1.kind = c2.kind
             /\ DOMAIN c1.fields = DOMAIN c2.fields
             /\ \A k \in DOMAIN c1.fields : DeepEqual(h, c1.fields[k], c2.fields[k])
             /\ Len(c1.elems) = Len(c2.elems)
             /\ \A i \in 1..Len(c1.elems) : DeepEqual(h, c1.elems[i], c2.elems[i])

----------------------------------------------------------------------------
(* Bounds of the model *)

MaxArrLen  == 2   \* longest array drawn as an input
NScalars   == 2   \* distinct numbers drawn as array elements
MaxSources == 2   \* most overrides passed to one deepMerge call
NProcs     == 2   \* loader calls that may be in flight together
MaxCalls   == 3   \* loader calls started in one run
MaxClears  == 1   \* clearConfigCache calls in one run

----------------------------------------------------------------------------
(* State *)

VARIABLES
    heap,      \* the object heap
    pc,        \* position of the deepMerge caller
    target,    \* deepMerge: first argument
    sources,   \* deepMerge: rest arguments
    result,    \* value returned by deepMerge(target, ...sources)
    again,     \* value returned by deepMerge(result, ...sources)
    chained,   \* value returned by deepMerge(deepMerge(target, s1), s2) and so on
    twice,     \* value returned by deepMerge(target, o, o)
    cachedConfig,  \* loader: the module-level cache
    inflight,  \* loader: the bag of calls suspended at their await
    log,       \* loader: the calls that have settled, in order
    gen,       \* loader: number of clearConfigCache calls so far
    started,   \* loader: number of calls started so far
    disk,      \* loader: what the file system holds for the explorer to find
    candidate,   \* validateConfig: its argument
    validation,  \* validateConfig: how the call ended
    diagnostic,  \* sonarqube adapter: one lint message
    issue,       \* sonarqube adapter: the issue made of that message
    eslintResults,  \* sonarqube adapter: what eslint.lintFiles resolved to
    lintResult,  \* sonarqube adapter: the LintResult of an analysis
    sonarReport, \* sonarqube adapter: the report built of a LintResult
    quickConfig, \* eslint adapter: the configuration buildEslintConfig is given
    packages,    \* eslint adapter: the modules that can be imported
    flatConfig,  \* eslint adapter: the fragments pushed so far
    awaiting,    \* eslint adapter: the import buildEslintConfig is suspended at
    built,       \* eslint adapter: how the call of buildEslintConfig ended
    formatConfig,  \* prettier adapter: the configuration buildPrettierConfig is given
    prettierOpts,  \* prettier adapter: how the call of buildPrettierConfig ended
    ejectOptions,  \* eject command: the options ejectCommand is given
    fsFiles,  \* eject command: the files and directories that exist in the project root
    npmPackages,  \* eject command: the packages installed in the project
    ejectPc,  \* eject command: the step ejectCommand is at
    ejectLog, \* eject command: what the command has reported so far
    reportArgv,  \* report command: the options given on the command line
    reportConfig,  \* report command: sonarqube.report of the configuration loadConfig resolves
    reportOptions,  \* report command: the options object the action handler receives
    reportWritten,  \* report command: the reports written, each with its directory
    reportPc, \* report command: the step the command is at
    checkConfig,  \* check command: the enabled flags of the configuration loadConfig resolves
    toolRuns,  \* check command: how runEslint and checkFormatting end when they are called
    checkResult,  \* check command: the CheckResult built so far
    exitCode,  \* check command: process.exitCode, 0 while it is not set
    checkPc  \* check command: the step checkCommand is at

mergeVars  == <<pc, target, sources, result, again, chained, twice>>
loaderVars == <<cachedConfig, inflight, log, gen, started, disk>>
validateVars == <<candidate, validation>>
sonarVars  == <<diagnostic, issue, eslintResults, lintResult, sonarReport>>
builderVars == <<quickConfig, packages, flatConfig, awaiting, built>>
prettierVars == <<formatConfig, prettierOpts>>
ejectVars == <<ejectOptions, fsFiles, npmPackages, ejectPc, ejectLog>>
reportVars == <<reportArgv, reportConfig, reportOptions, reportWritten, reportPc>>
checkVars == <<checkConfig, toolRuns, checkResult, exitCode, checkPc>>
cliVars    == <<prettierVars, ejectVars, reportVars, checkVars>>
toolVars   == <<validateVars, sonarVars, builderVars, cliVars>>
vars == <<heap, pc, target, sources, result, again, chained, twice, cachedConfig, inflight, log, gen, started,
          disk, candidate, validation, diagnostic, issue, eslintResults, lintResult, sonarReport,
          quickConfig, packages, flatConfig, awaiting, built, formatConfig, prettierOpts,
          ejectOptions, fsFiles, npmPackages, ejectPc, ejectLog,
          reportArgv, reportConfig, reportOptions, reportWritten, reportPc,
          checkConfig, toolRuns, checkResult, exitCode, checkPc>>

\* no call has been made yet
NotCalled == [status |-> "none"]

\* validateConfig is not being called
ValidateIdle ==
    /\ candidate = Undefined
    /\ validation = NotCalled

\* the sonarqube adapter is not in use
SonarIdle ==
    /\ diagnostic = NotCalled
    /\ issue = NotCalled
    /\ eslintResults = NotCalled
    /\ lintResult = NotCalled
    /\ sonarReport = NotCalled

\* buildEslintConfig is not being called
BuilderIdle ==
    /\ quickConfig = NotCalled
    /\ packages = NotCalled
    /\ flatConfig = <<>>
    /\ awaiting = "none"
    /\ built = "no"

\* buildPrettierConfig is not being called
PrettierIdle ==
    /\ formatConfig = NotCalled
    /\ prettierOpts = NotCalled

\* ejectCommand is not being run
EjectIdle ==
    /\ ejectOptions = NotCalled
    /\ fsFiles = {}
    /\ npmPackages = {}
    /\ ejectPc = "idle"
    /\ ejectLog = {}

\* the report command is not being run
ReportIdle ==
    /\ reportArgv = NotCalled
    /\ reportConfig = NotCalled
    /\ reportOptions = NotCalled
    /\ reportWritten = {}
    /\ reportPc = "idle"

\* checkCommand is not being run
CheckIdle ==
    /\ checkConfig = NotCalled
    /\ toolRuns = NotCalled
    /\ checkResult = NotCalled
    /\ exitCode = 0
    /\ checkPc = "idle"

\* no adapter or command besides the three above is in use
CliIdle ==
    /\ PrettierIdle
    /\ EjectIdle
    /\ ReportIdle
    /\ CheckIdle

\* nothing but the merge and the loader is in use
ToolsIdle ==
    /\ ValidateIdle
    /\ SonarIdle
    /\ BuilderIdle
    /\ CliIdle

\* deepMerge is not being called and the loader has not been used
MergeIdle ==
    /\ pc = "off"
    /\ target = Undefined
    /\ sources = <<>>
    /\ result = Undefined
    /\ again = Undefined
    /\ chained = Undefined
    /\ twice = Undefined

LoaderIdle ==
    /\ cachedConfig = Null
    /\ inflight = EmptyBag
    /\ log = <<>>
    /\ gen = 0
    /\ started = 0
    /\ disk = "absent"

----------------------------------------------------------------------------
(* Inputs of deepMerge: cells laid out after the defaults *)

D   == Len(defaultConfigHeap)
T0  == D + 1    \* base mapping
O1  == D + 2    \* first override mapping
O2  == D + 3    \* second override mapping
BA  == D + 4    \* array held by the base
OA  == D + 5    \* array held by an override
BN  == D + 6    \* mapping nested in the base
ON  == D + 7    \* mapping nested in an override
BN2 == D + 8    \* mapping nested in BN
ON2 == D + 9    \* mapping nested in ON
BI  == D + 10   \* class instance held by the base
OI  == D + 11   \* class instance held by an override
EL  == D + 12   \* object used as an array element

\* mappings over a subset of two keys, each key absent or drawn from its set
Fields2(k1, S1, k2, S2) ==
    {NoFields}
      \cup {k1 :> v1 : v1 \in S1}
      \cup {k2 :> v2 : v2 \in S2}
      \cup {k1 :> v1 @@ k2 :> v2 : v1 \in S1, v2 \in S2}

ArrElems == {Num(i) : i \in 1..NScalars} \cup {Ref(EL)}

SeqsUpTo(S, n) == UNION {[1..m -> S] : m \in 0..n}

BaseTop   == {Num(1), Null, Ref(BA), Ref(BN), Ref(BI)}
OverTop   == {Undefined, Num(1), Num(2), Null, Ref(OA), Ref(ON), Ref(OI)}
BaseInner == {Num(1), Ref(BN2), Ref(BA)}
OverInner == {Undefined, Num(2), Null, Ref(ON2), Ref(OA)}

InputHeap(t0, o1, o2, ba, oa, bn, on) ==
    defaultConfigHeap \o
    << ObjCell(t0), ObjCell(o1), ObjCell(o2), ArrCell(ba), ArrCell(oa),
       ObjCell(bn), ObjCell(on),
       ObjCell("z" :> Num(1) @@ "w" :> Num(1)), ObjCell("z" :> Num(2)),
       InstCell("x" :> Num(1)), InstCell("x" :> Num(2)),
       ObjCell("x" :> Num(1)) >>

Ready(h, t, srcs) ==
    /\ heap = h
    /\ target = t
    /\ sources = srcs
    /\ pc = "ready"
    /\ result = Undefined
    /\ again = Undefined
    /\ chained = Undefined
    /\ twice = Undefined
    /\ cachedConfig = Null
    /\ inflight = EmptyBag
    /\ log = <<>>
    /\ gen = 0
    /\ started = 0
    /\ disk = "absent"
    /\ ToolsIdle

\* one override; the arrays vary when both sides hold an array under "a",
\* the nested mappings vary when both sides hold a mapping under "a"
InitSingle ==
    \E t0 \in Fields2("a", BaseTop, "b", {Num(1)}),
       o1 \in Fields2("a", OverTop, "b", {Undefined, Num(2)}) :
      LET bothArr == Get(ObjCell(t0), "a") = Ref(BA) /\ Get(ObjCell(o1), "a") = Ref(OA)
          bothObj == Get(ObjCell(t0), "a") = Ref(BN) /\ Get(ObjCell(o1), "a") = Ref(ON)
      IN  \E ba \in (IF bothArr THEN SeqsUpTo(ArrElems, MaxArrLen) ELSE {<<Num(1)>>}),
             oa \in (IF bothArr THEN SeqsUpTo(ArrElems, MaxArrLen) ELSE {<<Num(1), Num(2)>>}),
             bn \in (IF bothObj THEN Fields2("x", BaseInner, "y", BaseInner)
                                ELSE {"x" :> Num(1)}),
             on \in (IF bothObj THEN Fields2("x", OverInner, "y", OverInner)
                                ELSE {"y" :> Num(2)}) :
            Ready(InputHeap(t0, o1, NoFields, ba, oa, bn, on), Ref(T0), <<Ref(O1)>>)

\* zero or more overrides, some of them not objects
SourceVals == {Ref(O1), Ref(O2), Null, Undefined}

InitMulti ==
    \E t0 \in Fields2("a", {Num(1), Ref(BN)}, "b", {Num(1)}),
       o1 \in Fields2("a", {Num(2), Ref(ON)}, "b", {Num(2)}),
       o2 \in Fields2("a", {Num(3), Ref(ON)}, "c", {Null}),
       srcs \in SeqsUpTo(SourceVals, MaxSources) :
         Ready(InputHeap(t0, o1, o2, <<Num(1)>>, <<Num(2)>>,
                         "x" :> Num(1) @@ "y" :> Ref(BN2), "x" :> Num(2) @@ "y" :> Ref(ON2)),
               Ref(T0), srcs)

\* user configuration objects as a configuration file may export them, laid
\* out from address b + 1 (the root) on
SectionNames == {"eslint", "prettier", "commitlint", "sonarqube", "husky", "ide"}

UserSection(b) ==
    {<<ObjCell(sec :> v)>> :
        sec \in SectionNames \cup {"custom"}, v \in {Null, Num(5), Bool(FALSE)}}

UserField(b) ==
    {<<ObjCell(sec :> Ref(b + 2)), ObjCell(f :> v)>> :
        sec \in {"prettier", "eslint"},
        f \in {"tabWidth", "enabled", "rules", "newOption"},
        v \in {Num(4), Bool(FALSE), Null, Undefined}}

UserArray(b) ==
    {<<ObjCell("eslint" :> Ref(b + 2)), ObjCell(f :> Ref(b + 3)), ArrCell(e)>> :
        f \in {"ignorePatterns", "extends", "rules"},
        e \in SeqsUpTo({Str("coverage"), Str("out")}, MaxArrLen)}

UserNested(b) ==
    {<<ObjCell(p[1] :> Ref(b + 2)), ObjCell(p[2] :> Ref(b + 3)), ObjCell(g :> v)>> :
        p \in {<<"sonarqube", "report">>, <<"eslint", "rules">>, <<"husky", "hooks">>},
        g \in {"format", "no-console", "pre-commit"},
        v \in {Str("json"), Null}}

UserConfigs(b) ==
    {<<ObjCell(NoFields)>>} \cup UserSection(b) \cup UserField(b) \cup UserArray(b)
        \cup UserNested(b)

\* the defaults as the base, one user configuration as the override
InitDefaults ==
    \E u \in UserConfigs(D) :
        Ready(defaultConfigHeap \o u, defaultConfig, <<Ref(D + 1)>>)

InitMerge == InitSingle \/ InitMulti \/ InitDefaults

----------------------------------------------------------------------------
(* Calls of deepMerge *)

\* result = deepMerge(target, ...sources)
Merge ==
    /\ pc = "ready"
    /\ LET r == deepMerge(heap, target, sources)
       IN  /\ heap' = r.heap
           /\ result' = r.ret
    /\ pc' = "merged"
    /\ UNCHANGED <<target, sources, again, chained, twice>>
    /\ UNCHANGED loaderVars
    /\ UNCHANGED toolVars

\* again = deepMerge(result, ...sources)
MergeAgain ==
    /\ pc = "merged"
    /\ LET r == deepMerge(heap, result, sources)
       IN  /\ heap' = r.heap
           /\ again' = r.ret
    /\ pc' = "remerged"
    /\ UNCHANGED <<target, sources, result, chained, twice>>
    /\ UNCHANGED loaderVars
    /\ UNCHANGED toolVars

\* deepMerge(...deepMerge(deepMerge(t, s1), s2)..., sn): one call for each
\* source, each call given the value the call before it returned
RECURSIVE Stepwise(_, _, _)
Stepwise(h, t, srcs) ==
    IF srcs = <<>> THEN [heap |-> h, ret |-> t]
    ELSE LET m == deepMerge(h, t, <<Head(srcs)>>)
         IN  Stepwise(m.heap, m.ret, Tail(srcs))

\* chained = deepMerge(deepMerge(target, sources[1]), sources[2]) and so on
MergeStepwise ==
    /\ pc = "remerged"
    /\ Len(sources) >= 2
    /\ LET r == Stepwise(heap, target, sources)
       IN  /\ heap' = r.heap
           /\ chained' = r.ret
    /\ pc' = "stepwise"
    /\ UNCHANGED <<target, sources, result, again, twice>>
    /\ UNCHANGED loaderVars
    /\ UNCHANGED toolVars

\* twice = deepMerge(target, o, o) for the one override o
MergeTwice ==
    /\ pc = "remerged"
    /\ Len(sources) = 1
    /\ LET r == deepMerge(heap, target, sources \o sources)
       IN  /\ heap' = r.heap
           /\ twice' = r.ret
    /\ pc' = "twice"
    /\ UNCHANGED <<target, sources, result, again, chained>>
    /\ UNCHANGED loaderVars
    /\ UNCHANGED toolVars

NextMerge == Merge \/ MergeAgain \/ MergeStepwise \/ MergeTwice

SpecMerge == InitMerge /\ [][NextMerge]_vars

----------------------------------------------------------------------------
(* src/config/loader.ts: the cosmiconfig explorer *)

\* the states of the configuration file the explorer looks at: there is none,
\* it cannot be read or parsed, it is empty, or it exports one of these values
DiskStates == {"absent", "broken", "empty", "tabWidth", "ignorePatterns", "nullSection", "string"}

\* the value a configuration file exports, objects laid out from address b + 1
FileConfig(d, b) ==
    CASE d = "tabWidth" ->
           [cells |-> <<ObjCell("prettier" :> Ref(b + 2)), ObjCell("tabWidth" :> Num(4))>>,
            value |-> Ref(b + 1)]
      [] d = "ignorePatterns" ->
           [cells |-> <<ObjCell("eslint" :> Ref(b + 2)),
                        ObjCell("ignorePatterns" :> Ref(b + 3)),
                        ArrCell(<<Str("coverage"), Str("out")>>)>>,
            value |-> Ref(b + 1)]
      [] d = "nullSection" ->
           [cells |-> <<ObjCell("prettier" :> Null)>>, value |-> Ref(b + 1)]
      [] d = "string" ->
           [cells |-> <<>>, value |-> Str("preset")]

\* the promise of explorer.search / explorer.load settles: rejected, fulfilled
\* with null, or fulfilled with a new result object { config, filepath }
Settle(h, o) ==
    CASE o = "rejects" ->
           [heap |-> h, settled |-> "rejected", result |-> Undefined]
      [] o = "null" ->
           [heap |-> h, settled |-> "fulfilled", result |-> Null]
      [] o = "empty" ->
           [heap |-> Append(h, ObjCell("config" :> Undefined @@ "filepath" :> Str("file")
                                        @@ "isEmpty" :> Bool(TRUE))),
            settled |-> "fulfilled", result |-> Ref(Len(h) + 1)]
      [] OTHER ->
           LET file == FileConfig(o, Len(h))
               h1   == h \o file.cells
           IN  [heap |-> Append(h1, ObjCell("config" :> file.value
                                             @@ "filepath" :> Str("file"))),
                settled |-> "fulfilled", result |-> Ref(Len(h1) + 1)]

\* explorer.search(dir): null when no file is found, a rejection when the file
\* found cannot be read or parsed
explorerSearch(h, d) ==
    Settle(h, CASE d = "absent" -> "null" [] d = "broken" -> "rejects" [] OTHER -> d)

\* explorer.load(filePath): a rejection when the path does not exist or the
\* file cannot be read or parsed
explorerLoad(h, d) ==
    Settle(h, CASE d = "absent" -> "rejects" [] d = "broken" -> "rejects" [] OTHER -> d)

----------------------------------------------------------------------------
(* src/config/loader.ts: loadConfig, clearConfigCache, loadConfigFromFile *)

\* variant: the cache is never taken as populated
CacheHitNever(cached) == FALSE

\* if (cachedConfig)
CacheHit(cached) == Truthy(cached)

\* variant: the error is thrown on instead of caught
loadConfigRethrow(h, cached) ==
    [heap |-> h, cachedConfig |-> cached, status |-> "rejected", ret |-> Undefined]

\* catch (error) { ...; cachedConfig = { ...defaultConfig }; } return cachedConfig!
loadConfigCatch(h, cached) ==
    LET c == Spread(h, defaultConfig)
    IN  [heap |-> c.heap, cachedConfig |-> c.ret, status |-> "returned", ret |-> c.ret]

\* loadConfig from the point where the awaited search has settled with s
loadConfigResume(h, s, cached) ==
    IF s.settled = "rejected" THEN loadConfigCatch(h, cached)
    ELSE IF Truthy(s.result) /\ Truthy(Get(h[s.result.n], "config"))
    THEN LET m == deepMerge(h, defaultConfig, <<Get(h[s.result.n], "config")>>)
         IN  [heap |-> m.heap, cachedConfig |-> m.ret, status |-> "returned", ret |-> m.ret]
    ELSE LET c == Spread(h, defaultConfig)
         IN  [heap |-> c.heap, cachedConfig |-> c.ret, status |-> "returned", ret |-> c.ret]

\* variant: the file-specific load stores what it resolved in the cache
loadConfigFromFileCaching(h, s, cached) ==
    IF s.settled = "rejected"
    THEN [heap |-> h, cachedConfig |-> cached, status |-> "rejected", ret |-> Undefined]
    ELSE IF Truthy(cached)
    THEN [heap |-> h, cachedConfig |-> cached, status |-> "returned", ret |-> cached]
    ELSE LET c == Spread(h, defaultConfig)
         IN  [heap |-> c.heap, cachedConfig |-> c.ret, status |-> "returned", ret |-> c.ret]

\* loadConfigFromFile from the point where the awaited load has settled with s;
\* nothing catches a rejection
loadConfigFromFileResume(h, s, cached) ==
    IF s.settled = "rejected"
    THEN [heap |-> h, cachedConfig |-> cached, status |-> "rejected", ret |-> Undefined]
    ELSE IF Truthy(s.result) /\ Truthy(Get(h[s.result.n], "config"))
    THEN LET m == deepMerge(h, defaultConfig, <<Get(h[s.result.n], "config")>>)
         IN  [heap |-> m.heap, cachedConfig |-> cached, status |-> "returned", ret |-> m.ret]
    ELSE LET c == Spread(h, defaultConfig)
         IN  [heap |-> c.heap, cachedConfig |-> cached, status |-> "returned", ret |-> c.ret]

\* one settled call, as its caller saw it
Entry(fn, outcome, r, searched, startGen, wasCached) ==
    [fn |-> fn, outcome |-> outcome, status |-> r.status, val |-> r.ret,
     searched |-> searched, startGen |-> startGen, endGen |-> gen, cached |-> wasCached]

InitLoader ==
    /\ heap = defaultConfigHeap
    /\ pc = "off"
    /\ target = Undefined
    /\ sources = <<>>
    /\ result = Undefined
    /\ again = Undefined
    /\ chained = Undefined
    /\ twice = Undefined
    /\ cachedConfig = Null
    /\ inflight = EmptyBag
    /\ log = <<>>
    /\ gen = 0
    /\ started = 0
    /\ disk \in DiskStates
    /\ ToolsIdle

\* a call suspended at its await: which function, and the cache generation it
\* started in
Suspended(fn, startGen) == [fn |-> fn, startGen |-> startGen]

\* loadConfig(cwd) up to its first await: return the cache, or start a search
LoadConfigCall ==
    /\ BagCardinality(inflight) < NProcs
    /\ started < MaxCalls
    /\ started' = started + 1
    /\ IF CacheHit(cachedConfig)
       THEN /\ log' = Append(log, Entry("loadConfig", "cache",
                                        [status |-> "returned", ret |-> cachedConfig],
                                        FALSE, gen, TRUE))
            /\ UNCHANGED inflight
       ELSE /\ inflight' = inflight (+) SetToBag({Suspended("loadConfig", gen)})
            /\ UNCHANGED log
    /\ UNCHANGED <<heap, cachedConfig, gen, disk>>
    /\ UNCHANGED mergeVars
    /\ UNCHANGED toolVars

\* the search of call c settles and loadConfig runs to its return
SearchSettles(c) ==
    /\ BagIn(c, inflight)
    /\ c.fn = "loadConfig"
    /\ LET s == explorerSearch(heap, disk)
           r == loadConfigResume(s.heap, s, cachedConfig)
       IN  /\ heap' = r.heap
           /\ cachedConfig' = r.cachedConfig
           /\ log' = Append(log, Entry("loadConfig", disk, r, TRUE, c.startGen,
                                       Truthy(cachedConfig)))
    /\ inflight' = inflight (-) SetToBag({c})
    /\ UNCHANGED <<gen, started, disk>>
    /\ UNCHANGED mergeVars
    /\ UNCHANGED toolVars

clearConfigCache ==
    /\ gen < MaxClears
    /\ cachedConfig' = Null
    /\ gen' = gen + 1
    /\ UNCHANGED <<heap, inflight, log, started, disk>>
    /\ UNCHANGED mergeVars
    /\ UNCHANGED toolVars

\* loadConfigFromFile(filePath) up to its await
LoadFromFileCall ==
    /\ BagCardinality(inflight) < NProcs
    /\ started < MaxCalls
    /\ started' = started + 1
    /\ inflight' = inflight (+) SetToBag({Suspended("loadConfigFromFile", gen)})
    /\ UNCHANGED <<heap, cachedConfig, log, gen, disk>>
    /\ UNCHANGED mergeVars
    /\ UNCHANGED toolVars

\* the load of call c settles and loadConfigFromFile returns or rejects
LoadSettles(c) ==
    /\ BagIn(c, inflight)
    /\ c.fn = "loadConfigFromFile"
    /\ LET s == explorerLoad(heap, disk)
           r == loadConfigFromFileResume(s.heap, s, cachedConfig)
       IN  /\ heap' = r.heap
           /\ cachedConfig' = r.cachedConfig
           /\ log' = Append(log, Entry("loadConfigFromFile", disk, r, FALSE, c.startGen,
                                       Truthy(cachedConfig)))
    /\ inflight' = inflight (-) SetToBag({c})
    /\ UNCHANGED <<gen, started, disk>>
    /\ UNCHANGED mergeVars
    /\ UNCHANGED toolVars

NextLoader ==
    \/ LoadConfigCall
    \/ \E c \in BagToSet(inflight) : SearchSettles(c)
    \/ LoadFromFileCall
    \/ \E c \in BagToSet(inflight) : LoadSettles(c)
    \/ clearConfigCache

\* loader calls in any interleaving; the configuration file does not change
\* during a run
SpecLoader == InitLoader /\ [][NextLoader]_vars

\* no loader call is in flight
Quiet == inflight = EmptyBag

NextLoaderSeq ==
    \/ Quiet /\ LoadConfigCall
    \/ \E c \in BagToSet(inflight) : SearchSettles(c)
    \/ Quiet /\ LoadFromFileCall
    \/ \E c \in BagToSet(inflight) : LoadSettles(c)
    \/ Quiet /\ clearConfigCache

\* every call is awaited before the next call or cache reset
SpecLoaderSeq == InitLoader /\ [][NextLoaderSeq]_vars

----------------------------------------------------------------------------
(* Properties of deepMerge *)

Mapping(h, v) == IsRef(v) /\ h[v.n].kind = "object"
Array(h, v)   == IsRef(v) /\ h[v.n].kind = "array"

\* deepMerge was called with exactly one override, an object
OneOverride == pc # "ready" /\ Len(sources) = 1 /\ IsRef(sources[1])

\* The places where a base mapping t met an override mapping s and produced r:
\* the call itself and, below it, every key under which both hold a mapping.
RECURSIVE Sites(_, _, _, _)
Sites(h, t, s, r) ==
    {<<t, s, r>>} \cup
    UNION {IF /\ Mapping(h, Get(h[t], k))
              /\ Mapping(h, Get(h[s], k))
              /\ Mapping(h, Get(h[r], k))
              /\ Get(h[r], k).n \notin {t, s, r}
           THEN Sites(h, Get(h[t], k).n, Get(h[s], k).n, Get(h[r], k).n)
           ELSE {} : k \in DOMAIN h[s].fields}

\* The same places followed through a second merge of s, into r2
RECURSIVE RepeatSites(_, _, _, _, _)
RepeatSites(h, t, s, r, r2) ==
    {<<t, s, r, r2>>} \cup
    UNION {IF /\ <<Get(h[t], k).n, Get(h[s], k).n, Get(h[r], k).n>> \in Sites(h, t, s, r) \ {<<t, s, r>>}
              /\ Mapping(h, Get(h[t], k))
              /\ Mapping(h, Get(h[r2], k))
           THEN RepeatSites(h, Get(h[t], k).n, Get(h[s], k).n, Get(h[r], k).n,
                            Get(h[r2], k).n)
           ELSE {} : k \in DOMAIN h[s].fields}

CallSites == Sites(heap, target.n, sources[1].n, result.n)

FirstIndex(q, x) == CHOOSE i \in 1..Len(q) : q[i] = x /\ \A j \in 1..(i - 1) : q[j] # x

\* R is B followed by O with every element kept at its first occurrence only
StableUnion(R, B, O) ==
    /\ Range(R) = Range(B) \cup Range(O)
    /\ \A i, j \in 1..Len(R) : i < j => R[i] # R[j]
    /\ \A i, j \in 1..Len(R) :
          i < j => FirstIndex(B \o O, R[i]) < FirstIndex(B \o O, R[j])

ArraysAt(site, k) ==
    /\ Array(heap, Get(heap[site[1]], k))
    /\ Array(heap, Get(heap[site[2]], k))

\* C1: where the base holds an array B and the override an array O under a key,
\* the result holds B followed by the elements of O not yet present, each
\* distinct element once; merging the same override again keeps that array.
C1_ArrayUnion ==
    OneOverride =>
      /\ \A site \in CallSites : \A k \in DOMAIN heap[site[2]].fields :
            ArraysAt(site, k) =>
               /\ Array(heap, Get(heap[site[3]], k))
               /\ StableUnion(heap[Get(heap[site[3]], k).n].elems,
                              heap[Get(heap[site[1]], k).n].elems,
                              heap[Get(heap[site[2]], k).n].elems)
      /\ pc = "remerged" =>
            \A site \in RepeatSites(heap, target.n, sources[1].n, result.n, again.n) :
              \A k \in DOMAIN heap[site[2]].fields :
                ArraysAt(site, k) =>
                   /\ Array(heap, Get(heap[site[4]], k))
                   /\ heap[Get(heap[site[4]], k).n].elems
                        = heap[Get(heap[site[3]], k).n].elems

\* an array union that had duplicates to drop, merged a second time
C1_Witness ==
    /\ OneOverride
    /\ pc = "remerged"
    /\ ArraysAt(<<target.n, sources[1].n, result.n>>, "a")
    /\ Len(heap[Get(heap[result.n], "a").n].elems)
         < Len(heap[BA].elems) + Len(heap[OA].elems)
    /\ Len(heap[Get(heap[result.n], "a").n].elems) > Len(heap[BA].elems)

\* the override value under k is one that replaces: it is not undefined, and
\* base and override are neither both plain mappings nor both arrays
Replaces(site, k) ==
    LET b == Get(heap[site[1]], k)
        o == Get(heap[site[2]], k)
    IN  /\ o # Undefined
        /\ ~(Mapping(heap, b) /\ Mapping(heap, o))
        /\ ~(Array(heap, b) /\ Array(heap, o))

\* C2: a defined override value that meets a base value of another shape (or no
\* base value) is the result's value for that key, exactly.
C2_Replace ==
    OneOverride =>
      \A site \in CallSites : \A k \in DOMAIN heap[site[2]].fields :
         Replaces(site, k) =>
            /\ k \in DOMAIN heap[site[3]].fields
            /\ heap[site[3]].fields[k] = heap[site[2]].fields[k]

\* a class instance replaced a class instance
C2_Witness ==
    /\ OneOverride
    /\ Get(heap[target.n], "a") = Ref(BI)
    /\ Get(heap[sources[1].n], "a") = Ref(OI)
    /\ Get(heap[result.n], "a") = Ref(OI)

\* C3: deepMerge modifies no object that existed before the call, and the
\* object it returns is a new one.
C3_NoMutation ==
    [][/\ Len(heap') >= Len(heap)
       /\ \A a \in 1..Len(heap) : heap'[a] = heap[a]
       /\ pc = "ready" => result'.n > Len(heap) /\ result' # target
       /\ pc = "merged" => again'.n > Len(heap) /\ again' # result]_vars

\* two overrides were merged into a base with a nested mapping
C3_Witness ==
    /\ pc = "merged"
    /\ sources = <<Ref(O1), Ref(O2)>>
    /\ Get(heap[O1], "a") = Ref(ON)
    /\ Get(heap[target.n], "a") = Ref(BN)
    /\ Mapping(heap, Get(heap[result.n], "a"))
    /\ Get(heap[result.n], "a").n > Len(defaultConfigHeap) + 12

\* C4: a key the override leaves undefined or does not name keeps the base
\* value, and is not created when the base has none.
C4_UndefinedKeeps ==
    OneOverride =>
      \A site \in CallSites :
        \A k \in DOMAIN heap[site[1]].fields \cup DOMAIN heap[site[2]].fields :
          Get(heap[site[2]], k) = Undefined =>
             /\ Get(heap[site[3]], k) = Get(heap[site[1]], k)
             /\ k \in DOMAIN heap[site[3]].fields <=> k \in DOMAIN heap[site[1]].fields

\* the override named a key with the value undefined and the base value stayed
C4_Witness ==
    /\ OneOverride
    /\ "a" \in DOMAIN heap[sources[1].n].fields
    /\ heap[sources[1].n].fields["a"] = Undefined
    /\ Get(heap[target.n], "a") = Ref(BN)
    /\ Get(heap[result.n], "a") = Ref(BN)

\* C5: where base and override both hold a plain mapping under a key, the
\* result holds a mapping with every base field the override does not name at
\* its base value, every field the override defines merged by the rules, and no
\* other field; with the defaults as base and only prettier.tabWidth
\* overridden, the prettier section differs from the default in tabWidth only.
C5_FieldByField ==
    OneOverride =>
      /\ \A site \in CallSites : \A k \in DOMAIN heap[site[2]].fields :
            LET b == Get(heap[site[1]], k)
                o == Get(heap[site[2]], k)
                r == Get(heap[site[3]], k)
            IN  (Mapping(heap, b) /\ Mapping(heap, o)) =>
                  /\ Mapping(heap, r)
                  /\ r \notin {b, o}
                  /\ <<b.n, o.n, r.n>> \in CallSites
                  /\ DOMAIN heap[r.n].fields =
                       DOMAIN heap[b.n].fields \cup
                         {f \in DOMAIN heap[o.n].fields : heap[o.n].fields[f] # Undefined}
                  /\ \A f \in DOMAIN heap[b.n].fields :
                        Get(heap[o.n], f) = Undefined =>
                           heap[r.n].fields[f] = heap[b.n].fields[f]
                  /\ \A f \in DOMAIN heap[o.n].fields :
                        LET bf == Get(heap[b.n], f)
                            of == heap[o.n].fields[f]
                            rf == Get(heap[r.n], f)
                        IN  /\ (Mapping(heap, bf) /\ Mapping(heap, of)) => Mapping(heap, rf)
                            /\ (Array(heap, bf) /\ Array(heap, of)) =>
                                  /\ Array(heap, rf)
                                  /\ StableUnion(heap[rf.n].elems, heap[bf.n].elems,
                                                 heap[of.n].elems)
                            /\ Replaces(<<b.n, o.n, r.n>>, f) => rf = of
      /\ (target = defaultConfig
            /\ DOMAIN heap[sources[1].n].fields = {"prettier"}
            /\ Mapping(heap, heap[sources[1].n].fields["prettier"])
            /\ DOMAIN heap[Get(heap[sources[1].n], "prettier").n].fields = {"tabWidth"}
            /\ Get(heap[Get(heap[sources[1].n], "prettier").n], "tabWidth") = Num(4))
         => LET p  == heap[Get(heap[result.n], "prettier").n].fields
                dp == heap[Get(heap[defaultConfig.n], "prettier").n].fields
            IN  /\ DOMAIN p = DOMAIN dp
                /\ p["tabWidth"] = Num(4)
                /\ \A f \in DOMAIN dp \ {"tabWidth"} : p[f] = dp[f]
                /\ p["semi"] = Bool(TRUE)
                /\ p["printWidth"] = Num(100)

\* a mapping nested two levels deep was merged field by field
C5_Witness ==
    /\ OneOverride
    /\ Get(heap[target.n], "a") = Ref(BN)
    /\ Get(heap[sources[1].n], "a") = Ref(ON)
    /\ Get(heap[BN], "x") = Ref(BN2)
    /\ Get(heap[ON], "x") = Ref(ON2)
    /\ Get(heap[BN], "y") = Num(1)
    /\ "y" \notin DOMAIN heap[ON].fields
    /\ Get(heap[Get(heap[Get(heap[result.n], "a").n], "x").n], "z") = Num(2)
    /\ Get(heap[Get(heap[Get(heap[result.n], "a").n], "x").n], "w") = Num(1)

----------------------------------------------------------------------------
(* Properties of the loader *)

LoadConfigEntries == {i \in 1..Len(log) : log[i].fn = "loadConfig"}
FromFileEntries   == {i \in 1..Len(log) : log[i].fn = "loadConfigFromFile"}

\* C6: loadConfig never rejects, and when the search finds no file or the
\* search or parse raises, it resolves to an object deep-equal to the defaults.
C6_LoaderFallback ==
    \A i \in LoadConfigEntries :
       /\ log[i].status = "returned"
       /\ IsRef(log[i].val)
       /\ log[i].outcome \in {"absent", "broken"} =>
             DeepEqual(heap, log[i].val, defaultConfig)

\* a search raised and the call returned a copy of the defaults
C6_Witness ==
    \E i \in LoadConfigEntries :
       /\ log[i].outcome = "broken"
       /\ log[i].status = "returned"
       /\ log[i].val # defaultConfig
       /\ cachedConfig = log[i].val

\* C7: of two loadConfig calls made one after the other with no cache reset
\* between them, the second returns the instance the first returned and does
\* not search; the first loadConfig call after a reset searches and resolves a
\* new object.
C7_CacheIdempotence ==
    /\ \A i, j \in LoadConfigEntries :
          (i < j /\ log[i].endGen = log[j].startGen) =>
             /\ log[j].val = log[i].val
             /\ ~log[j].searched
    /\ \A j \in LoadConfigEntries :
          (\A i \in LoadConfigEntries : i < j => log[i].endGen # log[j].startGen) =>
             /\ log[j].searched
             /\ log[j].val # defaultConfig
             /\ \A i \in LoadConfigEntries : i < j => log[i].val # log[j].val

\* a search, a cache hit, a reset and a new search, in that order
C7_Witness ==
    \E i, j, k \in LoadConfigEntries :
       /\ i < j /\ j < k
       /\ log[i].searched /\ log[i].endGen = 0
       /\ ~log[j].searched /\ log[j].startGen = 0
       /\ log[k].searched /\ log[k].startGen = 1

\* C8: between two cache resets the cache is written at most once: once it
\* holds a configuration it keeps that instance until the next reset, and it
\* holds nothing or a whole configuration object.
C8_WrittenOncePerGeneration ==
    [][/\ (Truthy(cachedConfig) /\ gen' = gen) => cachedConfig' = cachedConfig
       /\ cachedConfig' = Null \/ Mapping(heap', cachedConfig')]_vars

\* the number of loadConfigFromFile calls in flight
LoadsInFlight(b) ==
    BagCardinality([c \in {x \in BagToSet(b) : x.fn = "loadConfigFromFile"} |-> b[c]])

\* the call of loadConfigFromFile or its continuation is the step taken
FromFileStep == LoadsInFlight(inflight') # LoadsInFlight(inflight)

\* the objects loadConfigFromFile returned for the same file are deep-equal,
\* and none of them is an object that loadConfig returned
FromFileResultsAgree ==
    /\ \A i, j \in FromFileEntries :
          (i < j /\ log[i].outcome = log[j].outcome /\ log[i].status = "returned"
              /\ log[j].status = "returned") =>
             DeepEqual(heap, log[i].val, log[j].val)
    /\ \A i \in FromFileEntries : \A j \in LoadConfigEntries :
          log[i].status = "returned" => log[i].val # log[j].val

\* C9: loadConfigFromFile leaves the cache as it was and its result is the same
\* for the same file whether or not the cache is populated.
C9_FromFileBypassesCache ==
    [][FromFileStep => (cachedConfig' = cachedConfig /\ FromFileResultsAgree')]_vars

\* the same file was loaded once with the cache empty and once with it set
C9_Witness ==
    \E i, j \in FromFileEntries :
       /\ log[i].outcome = "tabWidth" /\ log[j].outcome = "tabWidth"
       /\ ~log[i].cached /\ log[j].cached
       /\ log[i].status = "returned" /\ log[j].status = "returned"
       /\ Truthy(cachedConfig)

\* C10: loadConfigFromFile never rejects; for a missing path or content that
\* does not parse it returns an object deep-equal to the defaults.
C10_FromFileNeverRaises ==
    \A i \in FromFileEntries :
       /\ log[i].status = "returned"
       /\ log[i].outcome \in {"absent", "broken"} =>
             DeepEqual(heap, log[i].val, defaultConfig)

\* every field the defaults d define is held by v: a mapping of the defaults
\* is a mapping in v holding each of its fields, any other default is a value
\* other than undefined
RECURSIVE Populated(_, _, _)
Populated(h, d, v) ==
    IF Mapping(h, d)
    THEN /\ Mapping(h, v)
         /\ \A k \in DOMAIN h[d.n].fields :
               Populated(h, h[d.n].fields[k], Get(h[v.n], k))
    ELSE v # Undefined

\* the configuration files that export an object
UserObjectStates == {"tabWidth", "ignorePatterns", "nullSection"}

\* C11: when loadConfig resolves with a user configuration object, every
\* section and every option the defaults define is present and set in the
\* resolved configuration, whatever the user gave for it.
C11_FullyPopulated ==
    \A i \in LoadConfigEntries :
       (log[i].outcome \in UserObjectStates /\ log[i].status = "returned") =>
          Populated(heap, defaultConfig, log[i].val)

----------------------------------------------------------------------------
(* src/src/config/schema.ts *)

\* typeof value ('function', 'symbol' and 'bigint' values are not modelled)
TypeOf(value) == IF value = Null THEN "object" ELSE value.t

\* list.includes(value) for a list of strings
Includes(list, value) == value.t = "string" /\ value.s \in list

\* the eslint section: lines 15-27
validateEslint(h, cfg) ==
    LET section == Get(cfg, "eslint")
    IN  IF section = Undefined THEN <<>>
        ELSE IF TypeOf(section) # "object" \/ section = Null
        THEN <<"eslint config must be an object">>
        ELSE LET eslint == h[section.n]
             IN  (IF Get(eslint, "rules") # Undefined
                        /\ TypeOf(Get(eslint, "rules")) # "object"
                  THEN <<"eslint.rules must be an object">> ELSE <<>>)
                 \o
                 (IF Get(eslint, "ignorePatterns") # Undefined
                        /\ ~ArrayIsArray(h, Get(eslint, "ignorePatterns"))
                  THEN <<"eslint.ignorePatterns must be an array">> ELSE <<>>)

\* the prettier section: lines 30-48
validatePrettier(h, cfg) ==
    LET section == Get(cfg, "prettier")
    IN  IF section = Undefined THEN <<>>
        ELSE IF TypeOf(section) # "object" \/ section = Null
        THEN <<"prettier config must be an object">>
        ELSE LET prettier == h[section.n]
             IN  (IF Get(prettier, "tabWidth") # Undefined
                        /\ TypeOf(Get(prettier, "tabWidth")) # "number"
                  THEN <<"prettier.tabWidth must be a number">> ELSE <<>>)
                 \o
                 (IF Get(prettier, "printWidth") # Undefined
                        /\ TypeOf(Get(prettier, "printWidth")) # "number"
                  THEN <<"prettier.printWidth must be a number">> ELSE <<>>)
                 \o
                 (IF Get(prettier, "trailingComma") # Undefined
                        /\ ~Includes({"all", "es5", "none"}, Get(prettier, "trailingComma"))
                  THEN <<"prettier.trailingComma must be one of: all, es5, none">>
                  ELSE <<>>)

\* the sonarqube section: lines 51-66.  report.format is read from whatever
\* sonar.report holds once it is not undefined: reading a property of null
\* throws a TypeError, reading it from a number, string or boolean gives
\* undefined
validateSonarqube(h, cfg) ==
    LET section == Get(cfg, "sonarqube")
        ok(errs) == [threw |-> FALSE, errors |-> errs]
    IN  IF section = Undefined THEN ok(<<>>)
        ELSE IF TypeOf(section) # "object" \/ section = Null
        THEN ok(<<"sonarqube config must be an object">>)
        ELSE LET report == Get(h[section.n], "report")
             IN  IF report = Undefined THEN ok(<<>>)
                 ELSE IF report = Null THEN [threw |-> TRUE, errors |-> <<>>]
                 ELSE LET format == IF IsRef(report) THEN Get(h[report.n], "format")
                                    ELSE Undefined
                      IN  IF format # Undefined /\ ~Includes({"html", "json", "both"}, format)
                          THEN ok(<<"sonarqube.report.format must be one of: html, json, both">>)
                          ELSE ok(<<>>)

\* the husky section: lines 69-78
validateHusky(h, cfg) ==
    LET section == Get(cfg, "husky")
    IN  IF section = Undefined THEN <<>>
        ELSE IF TypeOf(section) # "object" \/ section = Null
        THEN <<"husky config must be an object">>
        ELSE LET husky == h[section.n]
             IN  IF Get(husky, "hooks") # Undefined /\ TypeOf(Get(husky, "hooks")) # "object"
                 THEN <<"husky.hooks must be an object">> ELSE <<>>

\* validateConfig(config): how the call ends and, when it returns, what
validateConfig(h, config) ==
    IF TypeOf(config) # "object" \/ config = Null
    THEN [status |-> "returned", valid |-> FALSE, errors |-> <<"Config must be an object">>]
    ELSE LET cfg   == h[config.n]
             sonar == validateSonarqube(h, cfg)
             errors == validateEslint(h, cfg) \o validatePrettier(h, cfg) \o sonar.errors
                          \o validateHusky(h, cfg)
         IN  IF sonar.threw
             THEN [status |-> "threw", valid |-> FALSE, errors |-> <<>>]
             ELSE [status |-> "returned", valid |-> Len(errors) = 0, errors |-> errors]

----------------------------------------------------------------------------
(* Arguments of validateConfig *)

\* the cells of a candidate
VRoot == 1   \* the candidate
VEs   == 2   \* its eslint section
VPr   == 3   \* its prettier section
VCl   == 4   \* its commitlint section
VSq   == 5   \* its sonarqube section
VRp   == 6   \* sonarqube.report
VHk   == 7   \* its husky section
VObj  == 8   \* some mapping
VArr  == 9   \* some array

\* a section that is absent or is not an object, and a section that is one
NoSection(vals)     == {[value |-> v, fields |-> NoFields] : v \in vals}
Section(a, fieldss) == {[value |-> Ref(a), fields |-> f] : f \in fieldss}

EslintInputs ==
    NoSection({Undefined, Null, Num(5)}) \cup
    Section(VEs, {"rules" :> r @@ "ignorePatterns" :> i :
                     r \in {Undefined, Ref(VObj), Num(1), Null, Ref(VArr)},
                     i \in {Undefined, Ref(VArr), Ref(VObj)}})

PrettierInputs ==
    NoSection({Undefined, Null}) \cup
    Section(VPr, {"tabWidth" :> t @@ "printWidth" :> p @@ "trailingComma" :> c :
                     t \in {Undefined, Num(4), Str("4")},
                     p \in {Undefined, Str("wide")},
                     c \in {Undefined, Str("es5"), Str("always"), Num(1)}})

CommitlintInputs ==
    NoSection({Undefined, Null, Num(5)}) \cup Section(VCl, {NoFields})

ReportInputs ==
    NoSection({Undefined, Null, Num(5)}) \cup
    Section(VRp, {"format" :> f : f \in {Undefined, Str("html"), Str("xml"), Null}})

SonarqubeInputs ==
    {[value |-> v, fields |-> NoFields, report |-> NoFields] :
        v \in {Undefined, Str("on"), Null}} \cup
    {[value |-> Ref(VSq), fields |-> "report" :> r.value, report |-> r.fields] :
        r \in ReportInputs}

HuskyInputs ==
    NoSection({Undefined, Str("on")}) \cup
    Section(VHk, {"hooks" :> k : k \in {Undefined, Ref(VObj), Ref(VArr), Null, Bool(TRUE)}})

\* the heap holding a candidate with these sections
CandidateHeap(es, pr, cl, sq, hk) ==
    << ObjCell("eslint" :> es.value @@ "prettier" :> pr.value @@ "commitlint" :> cl.value
                  @@ "sonarqube" :> sq.value @@ "husky" :> hk.value),
       ObjCell(es.fields), ObjCell(pr.fields), ObjCell(cl.fields), ObjCell(sq.fields),
       ObjCell(sq.report), ObjCell(hk.fields), ObjCell(NoFields), ArrCell(<<>>) >>

NoCandidate == [value |-> Undefined, fields |-> NoFields]

\* candidates that are not mappings: primitives, null, an array
OtherCandidates == {Undefined, Null, Num(1), Str("config"), Bool(TRUE), Ref(VArr)}

InitValidate ==
    /\ MergeIdle
    /\ LoaderIdle
    /\ SonarIdle
    /\ BuilderIdle
    /\ CliIdle
    /\ validation = NotCalled
    /\ \/ \E es \in EslintInputs, pr \in PrettierInputs, cl \in CommitlintInputs,
             sq \in SonarqubeInputs, hk \in HuskyInputs :
             /\ heap = CandidateHeap(es, pr, cl, sq, hk)
             /\ candidate = Ref(VRoot)
       \/ /\ heap = CandidateHeap(NoCandidate, NoCandidate, NoCandidate,
                                  [value |-> Undefined, fields |-> NoFields,
                                   report |-> NoFields], NoCandidate)
          /\ candidate \in OtherCandidates

\* validation = validateConfig(candidate), or the call throws
Validate ==
    /\ validation = NotCalled
    /\ validation' = validateConfig(heap, candidate)
    /\ UNCHANGED <<heap, candidate>>
    /\ UNCHANGED mergeVars
    /\ UNCHANGED loaderVars
    /\ UNCHANGED sonarVars
    /\ UNCHANGED builderVars
    /\ UNCHANGED cliVars

NextValidate == Validate

SpecValidate == InitValidate /\ [][NextValidate]_vars

----------------------------------------------------------------------------
(* Properties of validateConfig *)

\* C12: validateConfig never throws: every call returns a {valid, errors}
\* result, whatever the candidate and its sections and fields hold.
C12_ValidateNeverThrows ==
    validation # NotCalled => validation.status = "returned"

\* the number of times message m occurs in the list errs
Count(errs, m) == Cardinality({i \in 1..Len(errs) : errs[i] = m})

\* the validator returned a result for a candidate that is a mapping
ValidatedMapping ==
    /\ validation # NotCalled
    /\ validation.status = "returned"
    /\ Mapping(heap, candidate)

\* the five known sections and the error reported for each
SectionError ==
    "eslint" :> "eslint config must be an object"
    @@ "prettier" :> "prettier config must be an object"
    @@ "commitlint" :> "commitlint config must be an object"
    @@ "sonarqube" :> "sonarqube config must be an object"
    @@ "husky" :> "husky config must be an object"

\* C13: each of the five known sections is checked on its own: an absent
\* section adds no error and a section that is present but is a scalar or null
\* adds one error for that section, whatever the other sections hold; a
\* candidate that is not an object yields exactly one error and valid = false.
C13_SectionsIndependent ==
    /\ ValidatedMapping =>
          \A sec \in DOMAIN SectionError :
             LET v == Get(heap[candidate.n], sec)
             IN  /\ v = Undefined => Count(validation.errors, SectionError[sec]) = 0
                 /\ (v # Undefined /\ ~IsRef(v)) =>
                       Count(validation.errors, SectionError[sec]) = 1
    /\ (validation # NotCalled /\ ~IsRef(candidate)) =>
          /\ validation.status = "returned"
          /\ Len(validation.errors) = 1
          /\ ~validation.valid

\* whether the candidate holds each field violation, named by its error
FieldViolated ==
    LET sec(s)      == Get(heap[candidate.n], s)
        field(s, f) == IF IsRef(sec(s)) THEN Get(heap[sec(s).n], f) ELSE Undefined
        set(v)      == v # Undefined
        oneOf(v, S) == v.t = "string" /\ v.s \in S
        rules       == field("eslint", "rules")
        ignores     == field("eslint", "ignorePatterns")
        tabWidth    == field("prettier", "tabWidth")
        printWidth  == field("prettier", "printWidth")
        comma       == field("prettier", "trailingComma")
        report      == field("sonarqube", "report")
        format      == IF IsRef(report) THEN Get(heap[report.n], "format") ELSE Undefined
        hooks       == field("husky", "hooks")
    IN  "eslint.rules must be an object" :> (set(rules) /\ ~Mapping(heap, rules))
        @@ "eslint.ignorePatterns must be an array" :> (set(ignores) /\ ~Array(heap, ignores))
        @@ "prettier.tabWidth must be a number" :> (set(tabWidth) /\ tabWidth.t # "number")
        @@ "prettier.printWidth must be a number" :>
              (set(printWidth) /\ printWidth.t # "number")
        @@ "prettier.trailingComma must be one of: all, es5, none" :>
              (set(comma) /\ ~oneOf(comma, {"all", "es5", "none"}))
        @@ "sonarqube.report.format must be one of: html, json, both" :>
              (set(format) /\ ~oneOf(format, {"html", "json", "both"}))
        @@ "husky.hooks must be an object" :> (set(hooks) /\ ~Mapping(heap, hooks))

\* C14: every violation is reported at once: for any combination of field
\* violations the errors list holds one error for each violation present and
\* none for a field that is valid, and valid is true exactly when the list is
\* empty.
C14_EveryViolationReported ==
    ValidatedMapping =>
       /\ \A m \in DOMAIN FieldViolated :
             Count(validation.errors, m) = IF FieldViolated[m] THEN 1 ELSE 0
       /\ validation.valid <=> Len(validation.errors) = 0

----------------------------------------------------------------------------
(* src/adapters/sonarqube.ts: severity and category mapping *)

\* A string is the sequence of its characters; a rule identifier is a string
\* or null.
NullRule   == [null |-> TRUE, text |-> <<>>]
Rule(text) == [null |-> FALSE, text |-> text]

UpperCaseLetters ==
    <<"A", "B", "C", "D", "E", "F", "G", "H", "I", "J", "K", "L", "M", "N", "O", "P", "Q",
      "R", "S", "T", "U", "V", "W", "X", "Y", "Z">>

LowerCaseLetters ==
    <<"a", "b", "c", "d", "e", "f", "g", "h", "i", "j", "k", "l", "m", "n", "o", "p", "q",
      "r", "s", "t", "u", "v", "w", "x", "y", "z">>

\* the lower-case letter of each upper-case letter
LowerOf ==
    [c \in {UpperCaseLetters[k] : k \in 1..26} |->
        LowerCaseLetters[CHOOSE k \in 1..26 : UpperCaseLetters[k] = c]]

\* variant: the text is taken as it is written
toLowerCaseKeep(text) == text

\* text.toLowerCase()
toLowerCase(text) ==
    [i \in 1..Len(text) |->
        IF text[i] \in DOMAIN LowerOf THEN LowerOf[text[i]] ELSE text[i]]

\* text.includes(part)
StringIncludes(text, part) ==
    \E i \in 0..(Len(text) - Len(part)) : SubSeq(text, i + 1, i + Len(part)) = part

\* the rule fragments that indicate bugs, in insertion order
BUG_RULES ==
    << <<"n", "o", "-", "a", "l", "l", "-", "d", "u", "p", "l", "i", "c", "a", "t", "e", "d",
         "-", "b", "r", "a", "n", "c", "h", "e", "s">>,
       <<"n", "o", "-", "e", "l", "e", "m", "e", "n", "t", "-", "o", "v", "e", "r", "w", "r",
         "i", "t", "e">>,
       <<"n", "o", "-", "i", "d", "e", "n", "t", "i", "c", "a", "l", "-", "c", "o", "n", "d",
         "i", "t", "i", "o", "n", "s">>,
       <<"n", "o", "-", "i", "d", "e", "n", "t", "i", "c", "a", "l", "-", "e", "x", "p", "r",
         "e", "s", "s", "i", "o", "n", "s">>,
       <<"n", "o", "-", "o", "n", "e", "-", "i", "t", "e", "r", "a", "t", "i", "o", "n", "-",
         "l", "o", "o", "p">>,
       <<"n", "o", "-", "u", "s", "e", "-", "o", "f", "-", "e", "m", "p", "t", "y", "-", "r",
         "e", "t", "u", "r", "n", "-", "v", "a", "l", "u", "e">>,
       <<"n", "o", "-", "c", "o", "l", "l", "e", "c", "t", "i", "o", "n", "-", "s", "i", "z",
         "e", "-", "m", "i", "s", "c", "h", "e", "c", "k">>,
       <<"n", "o", "-", "r", "e", "d", "u", "n", "d", "a", "n", "t", "-", "j", "u", "m", "p">>,
       <<"n", "o", "-", "s", "a", "m", "e", "-", "l", "i", "n", "e", "-", "c", "o", "n", "d",
         "i", "t", "i", "o", "n", "a", "l">>,
       <<"n", "o", "-", "g", "r", "a", "t", "u", "i", "t", "o", "u", "s", "-", "e", "x", "p",
         "r", "e", "s", "s", "i", "o", "n", "s">> >>

\* the keywords that indicate security vulnerabilities
VULN_KEYWORDS ==
    << <<"n", "o", "-", "h", "a", "r", "d", "c", "o", "d", "e", "d", "-", "c", "r", "e", "d",
         "e", "n", "t", "i", "a", "l", "s">>,
       <<"n", "o", "-", "h", "a", "r", "d", "c", "o", "d", "e", "d", "-", "p", "a", "s", "s",
         "w", "o", "r", "d", "s">>,
       <<"c", "s", "r", "f">>,
       <<"e", "n", "c", "r", "y", "p", "t", "i", "o", "n">>,
       <<"w", "e", "a", "k", "-", "s", "s", "l">>,
       <<"s", "o", "c", "k", "e", "t">>,
       <<"c", "o", "n", "f", "i", "d", "e", "n", "t", "i", "a", "l">> >>

\* the texts mapSeverity looks for
SECURITY      == <<"s", "e", "c", "u", "r", "i", "t", "y">>
VULNERABILITY == <<"v", "u", "l", "n", "e", "r", "a", "b", "i", "l", "i", "t", "y">>

\* mapSeverity(eslintSeverity, ruleId)
mapSeverity(eslintSeverity, ruleId) ==
    LET ruleLower == toLowerCase(IF ruleId.null THEN <<>> ELSE ruleId.text)
    IN  IF StringIncludes(ruleLower, SECURITY) \/ StringIncludes(ruleLower, VULNERABILITY)
        THEN IF eslintSeverity = 2 THEN "critical" ELSE "major"
        ELSE IF eslintSeverity = 2 THEN "major" ELSE "minor"

\* variant: the vulnerability keywords are looked for before the bug fragments
categorizeRuleVulnerabilityFirst(ruleId) ==
    IF ruleId.null \/ ruleId.text = <<>> THEN "code_smell"
    ELSE LET ruleLower == toLowerCase(ruleId.text)
         IN  IF \E i \in DOMAIN VULN_KEYWORDS : StringIncludes(ruleLower, VULN_KEYWORDS[i])
             THEN "vulnerability"
             ELSE IF \E i \in DOMAIN BUG_RULES : StringIncludes(ruleLower, BUG_RULES[i])
             THEN "bug"
             ELSE "code_smell"

\* categorizeRule(ruleId): each loop returns on its first match, and every
\* match of one loop returns the same type
categorizeRule(ruleId) ==
    IF ruleId.null \/ ruleId.text = <<>> THEN "code_smell"
    ELSE LET ruleLower == toLowerCase(ruleId.text)
         IN  IF \E i \in DOMAIN BUG_RULES : StringIncludes(ruleLower, BUG_RULES[i])
             THEN "bug"
             ELSE IF \E i \in DOMAIN VULN_KEYWORDS :
                        StringIncludes(ruleLower, VULN_KEYWORDS[i])
             THEN "vulnerability"
             ELSE "code_smell"

\* mapCategory(type)
mapCategory(type) ==
    CASE type = "bug" -> "bug"
      [] type = "vulnerability" -> "vulnerability"
      [] type = "code_smell" -> "code-smell"
      [] OTHER -> "code-smell"

\* variant: only a bug has an effort of its own
estimateEffortFallback(type) ==
    CASE type = "bug" -> "30min"
      [] OTHER -> "15min"

\* estimateEffort(type)
estimateEffort(type) ==
    CASE type = "bug" -> "30min"
      [] type = "vulnerability" -> "1h"
      [] type = "code_smell" -> "10min"
      [] OTHER -> "15min"

----------------------------------------------------------------------------
(* src/adapters/sonarqube.ts: runSonarAnalysis and buildSonarReport *)

\* the sum of one counter over the results of eslint.lintFiles
RECURSIVE SumField(_, _)
SumField(results, field) ==
    IF results = <<>> THEN 0
    ELSE results[1][field] + SumField(Tail(results), field)

\* runSonarAnalysis from the point where eslint.lintFiles has resolved: the
\* totals are summed over every file, a file is kept when it has messages
runSonarAnalysis(results) ==
    LET totalErrors   == SumField(results, "errorCount")
        totalWarnings == SumField(results, "warningCount")
        hasMessages(r) == Len(r.messages) > 0
        fileResult(r) ==
            [filePath |-> r.filePath,
             messages |-> [j \in 1..Len(r.messages) |->
                 [ruleId   |-> r.messages[j].ruleId,
                  severity |-> IF r.messages[j].severity = 2 THEN "error" ELSE "warning",
                  category |-> mapCategory(categorizeRule(r.messages[j].ruleId))]]]
        kept == SelectSeq(results, hasMessages)
    IN  [tool |-> "sonarqube",
         success |-> totalErrors = 0,
         errorCount |-> totalErrors,
         warningCount |-> totalWarnings,
         fixableCount |-> 0,
         files |-> [i \in 1..Len(kept) |-> fileResult(kept[i])]]

\* the issue made of one message: the callback of file.messages.map
sonarIssue(msg) ==
    LET type == categorizeRule(msg.ruleId)
    IN  [ruleId   |-> IF msg.ruleId.null THEN Rule(<<"u", "n", "k", "n", "o", "w", "n">>)
                      ELSE msg.ruleId,
         severity |-> mapSeverity(IF msg.severity = "error" THEN 2 ELSE 1, msg.ruleId),
         type     |-> type,
         effort   |-> estimateEffort(type)]

\* the messages of all the files, as pairs of a file index and a message index
MessagesOf(files) ==
    UNION {{<<i, j>> : j \in 1..Len(files[i].messages)} : i \in 1..Len(files)}

\* variant: a message that is neither a bug nor a vulnerability is not counted
CountCodeSmellsNone(files) == 0

\* codeSmells after the loop: the messages that took the else branch
CountCodeSmells(files) ==
    Cardinality({p \in MessagesOf(files) :
        categorizeRule(files[p[1]].messages[p[2]].ruleId) \notin {"bug", "vulnerability"}})

\* bugs or vulnerabilities after the loop
CountType(files, type) ==
    Cardinality({p \in MessagesOf(files) :
        categorizeRule(files[p[1]].messages[p[2]].ruleId) = type})

\* buildSonarReport(result); projectName and timestamp are left out
buildSonarReport(lint) ==
    LET bugs            == CountType(lint.files, "bug")
        vulnerabilities == CountType(lint.files, "vulnerability")
        codeSmells      == CountCodeSmells(lint.files)
    IN  [summary |-> [bugs |-> bugs,
                      vulnerabilities |-> vulnerabilities,
                      codeSmells |-> codeSmells,
                      totalIssues |-> bugs + vulnerabilities + codeSmells],
         files |-> [i \in 1..Len(lint.files) |->
                      [filePath |-> lint.files[i].filePath,
                       issues |-> [j \in 1..Len(lint.files[i].messages) |->
                                     sonarIssue(lint.files[i].messages[j])]]]]
----------------------------------------------------------------------------
(* Inputs of the sonarqube adapter *)

MaxPieces == 2   \* most pieces in one rule identifier
MaxFiles  == 2   \* most files in one analysis
MaxMsgs   == 2   \* most messages of one file

\* the pieces the rule identifiers of the inputs are made of: the text, the
\* type the piece stands for and whether it names security
Pieces ==
    << [text |-> <<"n", "o", "-", "i", "d", "e", "n", "t", "i", "c", "a", "l", "-", "c", "o",
         "n", "d", "i", "t", "i", "o", "n", "s">>,
        signals |-> "bug", security |-> FALSE],
       [text |-> <<"N", "O", "-", "R", "E", "D", "U", "N", "D", "A", "N", "T", "-", "J", "U",
         "M", "P">>,
        signals |-> "bug", security |-> FALSE],
       [text |-> <<"s", "o", "n", "a", "r", "j", "s">>,
        signals |-> "none", security |-> FALSE],
       [text |-> <<"p", "r", "e", "f", "e", "r", "-", "c", "o", "n", "s", "t">>,
        signals |-> "none", security |-> FALSE],
       [text |-> <<"c", "s", "r", "f">>,
        signals |-> "vulnerability", security |-> FALSE],
       [text |-> <<"W", "e", "a", "k", "-", "S", "S", "L">>,
        signals |-> "vulnerability", security |-> FALSE],
       [text |-> <<"n", "o", "-", "i", "d", "e", "n", "t", "i", "c", "a", "l", "-", "c", "o",
         "n", "d", "i", "t", "i", "o", "n">>,
        signals |-> "none", security |-> FALSE],
       [text |-> <<"s", "e", "c", "u", "r", "i", "t", "y">>,
        signals |-> "none", security |-> TRUE],
       [text |-> <<"V", "u", "l", "n", "e", "r", "a", "b", "i", "l", "i", "t", "y">>,
        signals |-> "none", security |-> TRUE],
       [text |-> <<"S", "E", "C", "U", "R", "E">>,
        signals |-> "none", security |-> FALSE] >>

\* the pieces numbered by ids, joined by "/"
RECURSIVE RuleText(_)
RuleText(ids) ==
    IF Len(ids) = 1 THEN Pieces[ids[1]].text
    ELSE Pieces[ids[1]].text \o <<"/">> \o RuleText(Tail(ids))

\* one message and the pieces its rule identifier is made of
DiagnosticInputs ==
    {[msg |-> [ruleId |-> r, severity |-> s], pieces |-> <<>>] :
        r \in {NullRule, Rule(<<>>)}, s \in {"error", "warning", "info"}}
    \cup
    {[msg |-> [ruleId |-> Rule(RuleText(ids)), severity |-> s], pieces |-> ids] :
        ids \in SeqsUpTo(DOMAIN Pieces, MaxPieces) \ {<<>>},
        s \in {"error", "warning", "info"}}

\* the rule identifiers of the messages of an analysis: a bug fragment, none,
\* a vulnerability keyword behind a security prefix
ReportRules == {Rule(RuleText(<<1>>)), NullRule, Rule(RuleText(<<8, 5>>))}

\* the messages of a LintResult: an error for an identified rule, a warning
\* for a message without one
ReportMessages ==
    {[ruleId |-> r, severity |-> IF r.null THEN "warning" ELSE "error"] : r \in ReportRules}

\* the files of a LintResult, file i under path i
LintFiles ==
    {[i \in 1..Len(ms) |-> [filePath |-> i, messages |-> ms[i]]] :
        ms \in SeqsUpTo(SeqsUpTo(ReportMessages, MaxMsgs), MaxFiles)}

\* what eslint.lintFiles resolves to: severity 2 is an error, 1 a warning, and
\* ESLint counts the two per file
EslintResult(file) ==
    LET messages == [j \in 1..Len(file.messages) |->
                        [ruleId |-> file.messages[j].ruleId,
                         severity |-> IF file.messages[j].severity = "error" THEN 2 ELSE 1]]
    IN  [filePath |-> file.filePath,
         messages |-> messages,
         errorCount   |-> Cardinality({j \in 1..Len(messages) : messages[j].severity = 2}),
         warningCount |-> Cardinality({j \in 1..Len(messages) : messages[j].severity = 1})]

InitSonar ==
    /\ heap = <<>>
    /\ MergeIdle
    /\ LoaderIdle
    /\ ValidateIdle
    /\ BuilderIdle
    /\ CliIdle
    /\ issue = NotCalled
    /\ sonarReport = NotCalled
    /\ \/ /\ diagnostic \in DiagnosticInputs
          /\ eslintResults = NotCalled
          /\ lintResult = NotCalled
       \/ /\ diagnostic = NotCalled
          /\ eslintResults = NotCalled
          /\ \E fs \in LintFiles : lintResult = [files |-> fs]
       \/ /\ diagnostic = NotCalled
          /\ \E fs \in LintFiles :
                eslintResults = [results |-> [i \in 1..Len(fs) |-> EslintResult(fs[i])]]
          /\ lintResult = NotCalled

\* one message of a file is turned into an issue
MakeIssue ==
    /\ diagnostic # NotCalled
    /\ issue = NotCalled
    /\ issue' = sonarIssue(diagnostic.msg)
    /\ UNCHANGED <<heap, diagnostic, eslintResults, lintResult, sonarReport>>
    /\ UNCHANGED <<mergeVars, loaderVars, validateVars, builderVars, cliVars>>

\* lintResult = await runSonarAnalysis(config), lintFiles having resolved
Analyse ==
    /\ eslintResults # NotCalled
    /\ lintResult = NotCalled
    /\ lintResult' = runSonarAnalysis(eslintResults.results)
    /\ UNCHANGED <<heap, diagnostic, issue, eslintResults, sonarReport>>
    /\ UNCHANGED <<mergeVars, loaderVars, validateVars, builderVars, cliVars>>

\* sonarReport = buildSonarReport(lintResult)
BuildReport ==
    /\ lintResult # NotCalled
    /\ sonarReport = NotCalled
    /\ sonarReport' = buildSonarReport(lintResult)
    /\ UNCHANGED <<heap, diagnostic, issue, eslintResults, lintResult>>
    /\ UNCHANGED <<mergeVars, loaderVars, validateVars, builderVars, cliVars>>

NextSonar == MakeIssue \/ Analyse \/ BuildReport

SpecSonar == InitSonar /\ [][NextSonar]_vars

----------------------------------------------------------------------------
(* Properties of the sonarqube adapter *)

\* an issue has been made of the message
Classified == diagnostic # NotCalled /\ issue # NotCalled

\* some piece of the message's rule identifier stands for this type
Signals(kind) ==
    \E k \in 1..Len(diagnostic.pieces) : Pieces[diagnostic.pieces[k]].signals = kind

\* some piece of the message's rule identifier names security
NamesSecurity ==
    \E k \in 1..Len(diagnostic.pieces) : Pieces[diagnostic.pieces[k]].security

\* C15: categorizeRule gives code_smell for a null or empty rule identifier,
\* bug when the identifier holds a bug fragment in any letter case, otherwise
\* vulnerability when it holds a vulnerability keyword, otherwise code_smell;
\* an identifier holding both is a bug.
C15_CategorizeRule ==
    Classified =>
       issue.type =
          IF diagnostic.msg.ruleId.null \/ diagnostic.msg.ruleId.text = <<>> THEN "code_smell"
          ELSE IF Signals("bug") THEN "bug"
          ELSE IF Signals("vulnerability") THEN "vulnerability"
          ELSE "code_smell"

\* an identifier holding a vulnerability keyword and then a bug fragment, the
\* fragment in capitals, was classified
C15_Witness ==
    /\ Classified
    /\ diagnostic.pieces = <<5, 2>>
    /\ issue.type = "bug"

\* C16: mapSeverity gives critical for an error and major for any other
\* message when the rule identifier holds "security" or "vulnerability" in any
\* letter case, and major and minor otherwise, a null identifier included;
\* never blocker or info.
C16_MapSeverity ==
    Classified =>
       /\ issue.severity =
             IF NamesSecurity
             THEN IF diagnostic.msg.severity = "error" THEN "critical" ELSE "major"
             ELSE IF diagnostic.msg.severity = "error" THEN "major" ELSE "minor"
       /\ issue.severity \in {"critical", "major", "minor"}

\* an error under a rule named "Vulnerability", with its capital, was mapped
\* to critical
C16_Witness ==
    /\ Classified
    /\ diagnostic.pieces = <<9>>
    /\ diagnostic.msg.severity = "error"
    /\ issue.severity = "critical"

\* a report has been built of a LintResult
Built == lintResult # NotCalled /\ sonarReport # NotCalled

\* the number of issues of one type in the files of the report
IssuesOfType(type) ==
    LET files == sonarReport.files
        all   == UNION {{<<i, j>> : j \in 1..Len(files[i].issues)} : i \in 1..Len(files)}
    IN  Cardinality({p \in all : files[p[1]].issues[p[2]].type = type})

\* C17: the summary's bugs, vulnerabilities and codeSmells are the numbers of
\* issues of each type held by the report's files, totalIssues is their sum and
\* the number of input messages; for no input all four are 0 and there is no
\* file.
C17_SummaryCounts ==
    Built =>
       LET summary == sonarReport.summary
       IN  /\ summary.bugs = IssuesOfType("bug")
           /\ summary.vulnerabilities = IssuesOfType("vulnerability")
           /\ summary.codeSmells = IssuesOfType("code_smell")
           /\ summary.totalIssues
                 = summary.bugs + summary.vulnerabilities + summary.codeSmells
           /\ summary.totalIssues = Cardinality(MessagesOf(lintResult.files))
           /\ lintResult.files = <<>> =>
                 /\ summary = [bugs |-> 0, vulnerabilities |-> 0, codeSmells |-> 0,
                               totalIssues |-> 0]
                 /\ sonarReport.files = <<>>

\* an error under no-identical-conditions in one file and a warning without a
\* rule in another gave bugs = 1, vulnerabilities = 0, codeSmells = 1,
\* totalIssues = 2 and two files
C17_Witness ==
    /\ Built
    /\ Len(lintResult.files) = 2
    /\ lintResult.files[1].messages
          = <<[ruleId |-> Rule(RuleText(<<1>>)), severity |-> "error"]>>
    /\ lintResult.files[2].messages = <<[ruleId |-> NullRule, severity |-> "warning"]>>
    /\ sonarReport.summary = [bugs |-> 1, vulnerabilities |-> 0, codeSmells |-> 1,
                              totalIssues |-> 2]
    /\ Len(sonarReport.files) = 2

\* C18: no file of a report built by buildSonarReport has zero issues: an
\* input file whose message list is empty is not in the report.
C18_NoEmptyFiles ==
    Built => \A i \in 1..Len(sonarReport.files) : Len(sonarReport.files[i].issues) > 0

----------------------------------------------------------------------------
(* src/src/adapters/eslint.ts: buildEslintConfig *)

\* the modules buildEslintConfig imports, in the order of its import() calls
Modules ==
    <<"globals", "typescript-eslint", "eslint-plugin-react", "eslint-plugin-react-hooks",
      "eslint-plugin-jsx-a11y", "eslint-plugin-sonarjs">>

\* a fragment of the flat config: what it is made from, for the entries of
\* tseslint.configs.recommended their index, for the user's rules the rules
Fragment(kind)   == [kind |-> kind, part |-> 0, rules |-> {}]
Recommended(i)   == [kind |-> "typescript", part |-> i, rules |-> {}]
UserRules(rules) == [kind |-> "rules", part |-> 0, rules |-> rules]

\* import(module) resolves
Resolves(module) == module \in packages.installed

\* the call is suspended at import(module)
Suspend(fc, module) == [flatConfig |-> fc, awaiting |-> module, built |-> "no"]

\* variant: the user's rules are put in front
ReturnRulesFirst(cfg, fc) ==
    [flatConfig |-> IF Cardinality(cfg.eslint.rules) > 0
                    THEN <<UserRules(cfg.eslint.rules)>> \o fc ELSE fc,
     awaiting |-> "none", built |-> "returned"]

\* lines 117-123: the user's rules, when there are any, and the return
Return(cfg, fc) ==
    [flatConfig |-> IF Cardinality(cfg.eslint.rules) > 0
                    THEN Append(fc, UserRules(cfg.eslint.rules)) ELSE fc,
     awaiting |-> "none", built |-> "returned"]

\* from line 111: if (config.sonarqube.enabled)
FromSonar(cfg, fc) ==
    IF cfg.sonarqube.enabled THEN Suspend(fc, "eslint-plugin-sonarjs") ELSE Return(cfg, fc)

\* from line 37: if (config.eslint.react)
FromReact(cfg, fc) ==
    IF cfg.eslint.react THEN Suspend(fc, "eslint-plugin-react") ELSE FromSonar(cfg, fc)

\* from line 28: if (config.eslint.typescript)
FromTypescript(cfg, fc) ==
    IF cfg.eslint.typescript THEN Suspend(fc, "typescript-eslint") ELSE FromReact(cfg, fc)

\* the call goes on to r
GoOn(r) ==
    /\ flatConfig' = r.flatConfig
    /\ awaiting' = r.awaiting
    /\ built' = r.built
    /\ UNCHANGED <<heap, quickConfig, packages>>
    /\ UNCHANGED <<mergeVars, loaderVars, validateVars, sonarVars, cliVars>>

\* buildEslintConfig(config) up to its first await: the ignores fragment is
\* pushed, globals are imported
BuildEslintConfigCall ==
    /\ quickConfig # NotCalled
    /\ built = "no"
    /\ awaiting = "none"
    /\ GoOn(Suspend(<<Fragment("ignores")>>, "globals"))

\* import('globals') resolved
GlobalsImported ==
    /\ built = "no"
    /\ awaiting = "globals"
    /\ Resolves("globals")
    /\ GoOn(FromTypescript(quickConfig, flatConfig))

\* import('typescript-eslint') resolved: its recommended configs are pushed
\* when they are an array
TypescriptImported ==
    /\ built = "no"
    /\ awaiting = "typescript-eslint"
    /\ Resolves("typescript-eslint")
    /\ LET recommended == packages.recommended
           fc == IF recommended.isArray
                 THEN flatConfig \o [i \in 1..recommended.length |-> Recommended(i)]
                 ELSE flatConfig
       IN  GoOn(FromReact(quickConfig, fc))

\* import('eslint-plugin-react') resolved
ReactImported ==
    /\ built = "no"
    /\ awaiting = "eslint-plugin-react"
    /\ Resolves("eslint-plugin-react")
    /\ GoOn(Suspend(flatConfig, "eslint-plugin-react-hooks"))

\* import('eslint-plugin-react-hooks') resolved: the React and React-hooks
\* blocks are pushed, jsx-a11y is imported inside the try
ReactHooksImported ==
    /\ built = "no"
    /\ awaiting = "eslint-plugin-react-hooks"
    /\ Resolves("eslint-plugin-react-hooks")
    /\ GoOn(Suspend(flatConfig \o <<Fragment("react"), Fragment("react-hooks")>>,
                    "eslint-plugin-jsx-a11y"))

\* import('eslint-plugin-jsx-a11y') settled: its block is pushed, or the
\* rejection is caught and the block skipped
JsxA11ySettled ==
    /\ built = "no"
    /\ awaiting = "eslint-plugin-jsx-a11y"
    /\ GoOn(FromSonar(quickConfig,
                      IF Resolves("eslint-plugin-jsx-a11y")
                      THEN Append(flatConfig, Fragment("jsx-a11y")) ELSE flatConfig))

\* import('eslint-plugin-sonarjs') resolved
SonarImported ==
    /\ built = "no"
    /\ awaiting = "eslint-plugin-sonarjs"
    /\ Resolves("eslint-plugin-sonarjs")
    /\ GoOn(Return(quickConfig, Append(flatConfig, Fragment("sonarjs"))))

\* an import outside a try rejected: the promise of buildEslintConfig rejects
ImportRejected ==
    /\ built = "no"
    /\ awaiting \in Range(Modules) \ {"eslint-plugin-jsx-a11y"}
    /\ ~Resolves(awaiting)
    /\ GoOn([flatConfig |-> <<>>, awaiting |-> awaiting, built |-> "rejected"])

MaxRecommended == 2   \* most entries of tseslint.configs.recommended

\* the configurations the builder is given: its toggles and the user's rules
QuickConfigs ==
    {[eslint |-> [typescript |-> t, react |-> r, rules |-> u,
                  ignorePatterns |-> <<"node_modules", "dist">>],
      sonarqube |-> [enabled |-> s]] :
        t \in BOOLEAN, r \in BOOLEAN, s \in BOOLEAN, u \in {{}, {"no-console"}}}

\* the modules that are installed, and what typescript-eslint exports as
\* configs.recommended
PackageStates ==
    {[installed |-> i, recommended |-> c] :
        i \in SUBSET Range(Modules),
        c \in {[isArray |-> FALSE, length |-> 0]}
                 \cup {[isArray |-> TRUE, length |-> n] : n \in 1..MaxRecommended}}

InitBuilder ==
    /\ heap = <<>>
    /\ MergeIdle
    /\ LoaderIdle
    /\ ValidateIdle
    /\ SonarIdle
    /\ CliIdle
    /\ quickConfig \in QuickConfigs
    /\ packages \in PackageStates
    /\ flatConfig = <<>>
    /\ awaiting = "none"
    /\ built = "no"

NextBuilder ==
    \/ BuildEslintConfigCall
    \/ GlobalsImported
    \/ TypescriptImported
    \/ ReactImported
    \/ ReactHooksImported
    \/ JsxA11ySettled
    \/ SonarImported
    \/ ImportRejected

SpecBuilder == InitBuilder /\ [][NextBuilder]_vars

----------------------------------------------------------------------------
(* Properties of buildEslintConfig *)

\* the kinds of fragment in the order the claim gives them
KindOrder ==
    <<"ignores", "typescript", "react", "react-hooks", "jsx-a11y", "sonarjs", "rules">>

RankOf(kind) == CHOOSE k \in 1..Len(KindOrder) : KindOrder[k] = kind

\* the fragments of one kind that the returned config holds
Held(kind) == {i \in 1..Len(flatConfig) : flatConfig[i].kind = kind}

\* C19: the returned fragments are in one fixed relative order for every
\* combination of toggles: the ignores fragment first, the TypeScript base
\* rules when eslint.typescript, the React, React-hooks and accessibility
\* blocks when eslint.react, the SonarJS block when sonarqube.enabled, and the
\* fragment of the user's eslint.rules, there whenever the rules are
\* non-empty, as the last element.
C19_FragmentOrder ==
    built = "returned" =>
       /\ flatConfig[1].kind = "ignores"
       /\ \A i, j \in 1..Len(flatConfig) :
             i < j =>
                \/ RankOf(flatConfig[i].kind) < RankOf(flatConfig[j].kind)
                \/ /\ flatConfig[i].kind = "typescript"
                   /\ flatConfig[j].kind = "typescript"
                   /\ flatConfig[i].part < flatConfig[j].part
       /\ Cardinality(Held("typescript"))
             = IF quickConfig.eslint.typescript /\ packages.recommended.isArray
               THEN packages.recommended.length ELSE 0
       /\ Cardinality(Held("react")) = IF quickConfig.eslint.react THEN 1 ELSE 0
       /\ Cardinality(Held("react-hooks")) = IF quickConfig.eslint.react THEN 1 ELSE 0
       /\ Held("jsx-a11y") # {} => quickConfig.eslint.react
       /\ Cardinality(Held("sonarjs")) = IF quickConfig.sonarqube.enabled THEN 1 ELSE 0
       /\ IF quickConfig.eslint.rules # {}
          THEN flatConfig[Len(flatConfig)] = UserRules(quickConfig.eslint.rules)
          ELSE Held("rules") = {}

\* every toggle is on, every module resolved and the user gave rules: all the
\* blocks were returned with the user's rules at the end
C19_Witness ==
    /\ built = "returned"
    /\ quickConfig.eslint.typescript /\ quickConfig.eslint.react
    /\ quickConfig.sonarqube.enabled
    /\ Len(flatConfig) = 6 + packages.recommended.length
    /\ packages.recommended.length = MaxRecommended
    /\ flatConfig[Len(flatConfig)].kind = "rules"
    /\ flatConfig[Len(flatConfig) - 1].kind = "sonarjs"

\* C20: when typescript-eslint, eslint-plugin-react, eslint-plugin-react-hooks,
\* eslint-plugin-jsx-a11y or eslint-plugin-sonarjs is unavailable, building is
\* not aborted: the call does not reject for it, and what it returns holds the
\* fragments of the plugins that are available.
C20_PluginsOptional ==
    /\ built = "rejected" => awaiting = "globals"
    /\ built = "returned" =>
          /\ Held("jsx-a11y") # {} <=>
                (quickConfig.eslint.react /\ Resolves("eslint-plugin-jsx-a11y"))
          /\ Held("sonarjs") # {} <=>
                (quickConfig.sonarqube.enabled /\ Resolves("eslint-plugin-sonarjs"))

----------------------------------------------------------------------------
(* src/unnamed/part_006, prettier adapter: buildPrettierConfig *)

\* variant: the rest pattern keeps every property
ObjectRestKeepAll(h, value, excluded) ==
    IF IsRef(value) THEN
        IF h[value.n].kind = "array"
        THEN [k \in {ToString(i - 1) : i \in 1..Len(h[value.n].elems)} |->
                 h[value.n].elems[CHOOSE i \in 1..Len(h[value.n].elems) : ToString(i - 1) = k]]
        ELSE h[value.n].fields
    ELSE NoFields

\* const { enabled: _, ...rest } = value: the own enumerable properties of
\* the value but the excluded ones; the elements of an array under their
\* indices, nothing for a number or a boolean
ObjectRest(h, value, excluded) ==
    LET own == IF IsRef(value) THEN
                   IF h[value.n].kind = "array"
                   THEN [k \in {ToString(i - 1) : i \in 1..Len(h[value.n].elems)} |->
                            h[value.n].elems[CHOOSE i \in 1..Len(h[value.n].elems) :
                                                 ToString(i - 1) = k]]
                   ELSE h[value.n].fields
               ELSE NoFields
    IN  [k \in (DOMAIN own) \ excluded |-> own[k]]

\* buildPrettierConfig(config): destructuring null or undefined throws a
\* TypeError, anything else gives a new object
buildPrettierConfig(h, config) ==
    LET section == Get(h[config.n], "prettier")
    IN  IF section \in {Null, Undefined}
        THEN [status |-> "threw", heap |-> h, val |-> Undefined]
        ELSE [status |-> "returned",
              heap |-> Append(h, ObjCell(ObjectRest(h, section, {"enabled"}))),
              val |-> Ref(Len(h) + 1)]

\* the configuration is one the loader resolves: the defaults merged with a
\* user configuration
InitPrettier ==
    /\ \E u \in UserConfigs(D) :
           LET m == deepMerge(defaultConfigHeap \o u, defaultConfig, <<Ref(D + 1)>>)
           IN  /\ heap = m.heap
               /\ formatConfig = m.ret
    /\ prettierOpts = NotCalled
    /\ MergeIdle
    /\ LoaderIdle
    /\ ValidateIdle
    /\ SonarIdle
    /\ BuilderIdle
    /\ EjectIdle
    /\ ReportIdle
    /\ CheckIdle

\* prettierOpts = buildPrettierConfig(formatConfig)
BuildPrettierConfig ==
    /\ formatConfig # NotCalled
    /\ prettierOpts = NotCalled
    /\ LET r == buildPrettierConfig(heap, formatConfig)
       IN  /\ heap' = r.heap
           /\ prettierOpts' = [status |-> r.status, val |-> r.val]
    /\ UNCHANGED formatConfig
    /\ UNCHANGED <<mergeVars, loaderVars, validateVars, sonarVars, builderVars, ejectVars, reportVars,
                  checkVars>>

NextPrettier == BuildPrettierConfig

SpecPrettier == InitPrettier /\ [][NextPrettier]_vars

\* the prettier section of the configuration given to buildPrettierConfig
PrettierSection(h) == Get(h[formatConfig.n], "prettier")

\* the section is an object, as the type QuickLintConfig says
SectionIsObject(h) ==
    /\ IsRef(PrettierSection(h))
    /\ h[PrettierSection(h).n].kind = "object"

\* C21: buildPrettierConfig, given a configuration whose prettier section is
\* an object, returns a new object that has no enabled key, has every other
\* key of the section with the same value and no further key, and the call
\* changes no object that existed before it (the configuration, its
\* sections and the defaults included).
C21_EnabledStripped ==
    [][BuildPrettierConfig /\ SectionIsObject(heap) =>
          /\ prettierOpts'.status = "returned"
          /\ prettierOpts'.val.n \notin 1..Len(heap)
          /\ LET section == heap[PrettierSection(heap).n].fields
                 opts    == heap'[prettierOpts'.val.n].fields
             IN  /\ "enabled" \notin DOMAIN opts
                 /\ DOMAIN opts = (DOMAIN section) \ {"enabled"}
                 /\ \A k \in DOMAIN opts : opts[k] = section[k]
          /\ \A a \in 1..Len(heap) : heap'[a] = heap[a]
          /\ formatConfig' = formatConfig]_vars

\* the section had an enabled flag and an option the defaults do not have;
\* the call returned an object holding that option
C21_Witness ==
    /\ prettierOpts # NotCalled
    /\ prettierOpts.status = "returned"
    /\ SectionIsObject(heap)
    /\ "enabled" \in DOMAIN heap[PrettierSection(heap).n].fields
    /\ Get(heap[prettierOpts.val.n], "newOption") = Num(4)
    /\ Get(heap[prettierOpts.val.n], "tabWidth") = Num(2)

----------------------------------------------------------------------------
(* src/src/cli/commands/eject.ts *)

\* at most this many of the files the command looks for exist
MaxPresent == 2

CONFIG_FILES ==
    << "quicklint.config.js", "quicklint.config.cjs", "quicklint.config.mjs",
       "quicklint.config.json", ".quicklintrc", ".quicklintrc.json", ".quicklintrc.js",
       ".quicklintrc.cjs" >>

\* the IDE proxy config files
ideFiles == << "eslint.config.mjs", ".prettierrc.json", "commitlint.config.cjs" >>

huskyDir == ".husky"

\* the peerDependencies that quicklint's package.json names
PeerDependencies == {"eslint", "prettier"}

\* getQuickLintPeerDeps(): the keys of peerDependencies in
\* node_modules/quicklint/package.json, nothing when that cannot be read
getQuickLintPeerDeps(installed) ==
    IF "quicklint" \in installed THEN PeerDependencies ELSE {}

\* a ?? b
Coalesce(a, b) == IF a \in {Null, Undefined} THEN b ELSE a

\* variant: the files are unlinked in a dry run too
removeConfigFilesAlways(files, dryRun) ==
    LET found == {f \in Range(CONFIG_FILES) : f \in files}
    IN  [files |-> files \ found, removed |-> found]

\* removeConfigFiles(cwd, dryRun): every config file that can be accessed is
\* pushed to the result, and unlinked unless dryRun is set
removeConfigFiles(files, dryRun) ==
    LET found == {f \in Range(CONFIG_FILES) : f \in files}
    IN  [files |-> IF ~dryRun THEN files \ found ELSE files, removed |-> found]

\* the packages the command names: quicklint, and its peers unless keepDeps
PackagesToUninstall(keepDeps, installed) ==
    {"quicklint"} \cup (IF ~keepDeps THEN getQuickLintPeerDeps(installed) ELSE {})

Reported(kind, names) == {[kind |-> kind, what |-> n] : n \in names}

\* const dryRun = options.dryRun ?? false
DryRun == Truthy(Coalesce(ejectOptions.dryRun, Bool(FALSE)))

EjectPaths == Range(CONFIG_FILES) \cup Range(ideFiles) \cup {huskyDir}

InitEject ==
    /\ \E d \in {Undefined, Bool(TRUE), Bool(FALSE)}, k \in {Undefined, Bool(TRUE), Bool(FALSE)} :
           ejectOptions = [dryRun |-> d, keepDeps |-> k]
    /\ fsFiles \in {S \in SUBSET EjectPaths : Cardinality(S) <= MaxPresent}
    /\ npmPackages \in {{}, {"quicklint"}, {"quicklint"} \cup PeerDependencies}
    /\ ejectPc = "configs"
    /\ ejectLog = {}
    /\ heap = <<>>
    /\ MergeIdle
    /\ LoaderIdle
    /\ ValidateIdle
    /\ SonarIdle
    /\ BuilderIdle
    /\ PrettierIdle
    /\ ReportIdle
    /\ CheckIdle

EjectFrame ==
    /\ UNCHANGED <<heap, ejectOptions>>
    /\ UNCHANGED <<mergeVars, loaderVars, validateVars, sonarVars, builderVars, prettierVars, reportVars,
                  checkVars>>

\* step 1: removeConfigFiles and the report of its result
RemoveConfigFiles ==
    /\ ejectPc = "configs"
    /\ LET r == removeConfigFiles(fsFiles, DryRun)
       IN  /\ fsFiles' = r.files
           /\ ejectLog' = ejectLog \cup
                  Reported(IF DryRun THEN "Would remove" ELSE "Removed", r.removed)
    /\ ejectPc' = "ide"
    /\ UNCHANGED npmPackages
    /\ EjectFrame

\* step 2: removeIdeConfigs, or in a dry run a look at the three files
RemoveIdeConfigs ==
    /\ ejectPc = "ide"
    /\ LET found == {f \in Range(ideFiles) : f \in fsFiles}
       IN  IF ~DryRun
           THEN /\ fsFiles' = fsFiles \ found
                /\ ejectLog' = ejectLog \cup Reported("Removed", found)
           ELSE /\ fsFiles' = fsFiles
                /\ ejectLog' = ejectLog \cup Reported("Would remove", found)
    /\ ejectPc' = "husky"
    /\ UNCHANGED npmPackages
    /\ EjectFrame

\* step 3: removeHusky (fs.rm with force), or in a dry run a look at .husky
RemoveHusky ==
    /\ ejectPc = "husky"
    /\ IF ~DryRun
       THEN /\ fsFiles' = fsFiles \ {huskyDir}
            /\ ejectLog' = ejectLog \cup Reported("Removed", {huskyDir})
       ELSE /\ fsFiles' = fsFiles
            /\ ejectLog' = ejectLog \cup
                   Reported("Would remove", {huskyDir} \cap fsFiles)
    /\ ejectPc' = "packages"
    /\ UNCHANGED npmPackages
    /\ EjectFrame

\* step 4: in a dry run the list of packages; otherwise uninstallPackages,
\* whose npm uninstall removes the packages or fails with a warning
UninstallPackages ==
    /\ ejectPc = "packages"
    /\ IF DryRun
       THEN /\ npmPackages' = npmPackages
            /\ ejectLog' = ejectLog \cup
                   Reported("Would uninstall",
                            PackagesToUninstall(Truthy(ejectOptions.keepDeps), npmPackages))
       ELSE LET names == PackagesToUninstall(
                             Truthy(Coalesce(ejectOptions.keepDeps, Bool(FALSE))), npmPackages)
            IN  \/ /\ npmPackages' = npmPackages \ names
                   /\ ejectLog' = ejectLog
                \/ /\ npmPackages' = npmPackages
                   /\ ejectLog' = ejectLog \cup Reported("Try manually", names)
    /\ ejectPc' = "done"
    /\ UNCHANGED fsFiles
    /\ EjectFrame

NextEject == RemoveConfigFiles \/ RemoveIdeConfigs \/ RemoveHusky \/ UninstallPackages

SpecEject == InitEject /\ [][NextEject]_vars

\* C22: while ejectCommand runs with dryRun set, no step removes a file or
\* directory or uninstalls a package, and everything it reports is something
\* it would remove or uninstall.
C22_DryRunChangesNothing ==
    [][DryRun =>
          /\ fsFiles' = fsFiles
          /\ npmPackages' = npmPackages
          /\ \A e \in ejectLog' : e.kind \in {"Would remove", "Would uninstall"}]_vars

\* a dry run has ended in a project that has a config file, the .husky
\* directory and quicklint with its peers installed, all of them reported
C22_Witness ==
    /\ ejectPc = "done"
    /\ DryRun
    /\ {"quicklint.config.js", huskyDir} \subseteq fsFiles
    /\ "quicklint" \in npmPackages
    /\ Reported("Would remove", {"quicklint.config.js", huskyDir}) \subseteq ejectLog
    /\ Reported("Would uninstall", {"quicklint", "eslint"}) \subseteq ejectLog

----------------------------------------------------------------------------
(* Order of the overrides *)

\* the sources that deepMerge reads keys of
IsOverride(s) == Truthy(s) /\ IsRef(s)

\* the last override that defines key k, 0 when none does
Rightmost(k) ==
    LET defining == {i \in 1..Len(sources) :
                        /\ IsOverride(sources[i])
                        /\ Get(heap[sources[i].n], k) # Undefined}
    IN  IF defining = {} THEN 0 ELSE CHOOSE i \in defining : \A j \in defining : j <= i

\* the keys of the base and of every override
AllKeys ==
    DOMAIN heap[target.n].fields \cup
    UNION {IF IsOverride(sources[i]) THEN DOMAIN heap[sources[i].n].fields ELSE {}
              : i \in 1..Len(sources)}

\* C23: deepMerge(base, o1, ..., on) is deep-equal to the calls chained one
\* override at a time, deepMerge(...deepMerge(base, o1)..., on); where the
\* last override that defines a key holds a scalar there, the result holds
\* that scalar; and deepMerge(base) without overrides is deep-equal to base.
C23_LeftToRight ==
    /\ pc = "stepwise" => DeepEqual(heap, result, chained)
    /\ pc # "ready" =>
          \A k \in AllKeys :
             Rightmost(k) # 0 /\ ~IsRef(Get(heap[sources[Rightmost(k)].n], k)) =>
                Get(heap[result.n], k) = Get(heap[sources[Rightmost(k)].n], k)
    /\ pc # "ready" /\ sources = <<>> => DeepEqual(heap, result, target)

\* two overrides with different scalars under a key the base has too: both
\* the single call and the chained calls hold the second override's scalar
C23_Witness ==
    /\ pc = "stepwise"
    /\ Len(sources) = 2
    /\ IsOverride(sources[1]) /\ IsOverride(sources[2])
    /\ Get(heap[target.n], "a") = Num(1)
    /\ Get(heap[sources[1].n], "a") = Num(2)
    /\ Get(heap[sources[2].n], "a") = Num(3)
    /\ Get(heap[result.n], "a") = Num(3)
    /\ Get(heap[chained.n], "a") = Num(3)
    /\ chained # result

----------------------------------------------------------------------------
(* Merging the same override twice *)

\* C27: for one override o, deepMerge(deepMerge(base, o), o) is deep-equal to
\* deepMerge(base, o), and so is deepMerge(base, o, o).
C27_Idempotent ==
    OneOverride =>
      /\ pc \in {"remerged", "twice"} => DeepEqual(heap, again, result)
      /\ pc = "twice" => DeepEqual(heap, twice, result)

----------------------------------------------------------------------------
(* The issues of a report *)

\* the effort the specification fixes for a type
EffortOf(type) ==
    CASE type = "bug" -> "30min"
      [] type = "vulnerability" -> "1h"
      [] type = "code_smell" -> "10min"

\* the issue expected of a message of ReportMessages
ExpectedIssue(msg) ==
    LET error == msg.severity = "error"
    IN  CASE msg.ruleId = Rule(RuleText(<<1>>)) ->
                [ruleId |-> msg.ruleId, type |-> "bug", effort |-> "30min",
                 severity |-> IF error THEN "major" ELSE "minor"]
          [] msg.ruleId = NullRule ->
                [ruleId |-> Rule(<<"u", "n", "k", "n", "o", "w", "n">>),
                 type |-> "code_smell", effort |-> "10min",
                 severity |-> IF error THEN "major" ELSE "minor"]
          [] msg.ruleId = Rule(RuleText(<<8, 5>>)) ->
                [ruleId |-> msg.ruleId, type |-> "vulnerability", effort |-> "1h",
                 severity |-> IF error THEN "critical" ELSE "major"]

\* C24: a report holds one file entry for each input file and in it one
\* issue for each message, in the order of the messages; the issue of a
\* message has the type and the severity of the message's rule identifier
\* (a missing identifier is a code smell of ordinary severity and is stored
\* as "unknown") and the effort fixed for its type: bug 30min, vulnerability
\* 1h, code_smell 10min.  No issue has the effort 15min.
C24_IssuesFollowMessages ==
    /\ Built =>
          /\ Len(sonarReport.files) = Len(lintResult.files)
          /\ \A i \in 1..Len(lintResult.files) :
                /\ Len(sonarReport.files[i].issues) = Len(lintResult.files[i].messages)
                /\ \A j \in 1..Len(lintResult.files[i].messages) :
                      /\ lintResult.files[i].messages[j].ruleId \in ReportRules =>
                            sonarReport.files[i].issues[j]
                               = ExpectedIssue(lintResult.files[i].messages[j])
                      /\ sonarReport.files[i].issues[j].effort
                            = EffortOf(sonarReport.files[i].issues[j].type)
                      /\ sonarReport.files[i].issues[j].effort # "15min"
    /\ issue # NotCalled =>
          /\ issue.type \in {"bug", "vulnerability", "code_smell"}
          /\ issue.effort = EffortOf(issue.type)
          /\ issue.effort # "15min"

\* one file with an error under a bug rule followed by a warning without a
\* rule: a bug of 30min, then a code smell of 10min stored as "unknown"
C24_Witness ==
    /\ Built
    /\ Len(lintResult.files) = 1
    /\ lintResult.files[1].messages
          = <<[ruleId |-> Rule(RuleText(<<1>>)), severity |-> "error"],
              [ruleId |-> NullRule, severity |-> "warning"]>>
    /\ sonarReport.files[1].issues
          = <<[ruleId |-> Rule(RuleText(<<1>>)), severity |-> "major", type |-> "bug",
               effort |-> "30min"],
              [ruleId |-> Rule(<<"u", "n", "k", "n", "o", "w", "n">>), severity |-> "minor",
               type |-> "code_smell", effort |-> "10min"]>>

----------------------------------------------------------------------------
(* The cache across a reset *)

\* C26: the configuration a loadConfig call returns was resolved by a search
\* that began in the cache generation the call started in or a later one,
\* never by a search that began before the last reset the call came after.
C26_NoStaleAfterReset ==
    \A i, j \in LoadConfigEntries :
       (log[i].searched /\ log[i].val = log[j].val) => log[i].startGen >= log[j].startGen

----------------------------------------------------------------------------
(* Objects shared between configurations *)

\* the addresses of the objects and arrays that can be reached from value v
RECURSIVE Reach(_, _)
Reach(h, v) ==
    IF ~IsRef(v) THEN {}
    ELSE {v.n}
         \cup UNION {Reach(h, h[v.n].fields[k]) : k \in DOMAIN h[v.n].fields}
         \cup UNION {Reach(h, h[v.n].elems[i]) : i \in 1..Len(h[v.n].elems)}

\* C28: no object or array that can be reached from a configuration returned
\* by loadConfig can be reached from defaultConfig, nor from a configuration
\* that another resolution returned.
C28_NothingShared ==
    /\ \A i \in LoadConfigEntries :
          Reach(heap, log[i].val) \cap Reach(heap, defaultConfig) = {}
    /\ \A i, j \in LoadConfigEntries :
          log[i].val # log[j].val =>
             Reach(heap, log[i].val) \cap Reach(heap, log[j].val) = {}

----------------------------------------------------------------------------
(* The cache after a fallback to the defaults *)

\* the step taken is a call of loadConfig
LoadConfigStarts ==
    /\ started' = started + 1
    /\ LoadsInFlight(inflight') = LoadsInFlight(inflight)

\* the loadConfig calls that found no file or whose search failed, and that
\* returned in the cache generation g
FallbacksIn(g) ==
    {i \in LoadConfigEntries :
        log[i].searched /\ log[i].outcome \in {"absent", "broken"} /\ log[i].endGen = g}

\* C30: once a loadConfig call that found no file, or whose search failed,
\* has returned, every loadConfig call made before the next reset returns at
\* once, without a search, the instance that call returned.
C30_FallbackIsCached ==
    [][LoadConfigStarts =>
          \A i \in FallbacksIn(gen) :
             /\ Len(log') = Len(log) + 1
             /\ ~log'[Len(log')].searched
             /\ log'[Len(log')].val = log[i].val]_vars

----------------------------------------------------------------------------
(* src/src/cli/index.ts (report) and src/src/cli/commands/report.ts *)

\* .option(flags, description, defaultValue): the value given on the command
\* line, the default value when the option is not given
CommanderOption(given, defaultValue) == IF given = Undefined THEN defaultValue ELSE given

\* the options object commander hands to the action of the report command
ReportOptions(argv) ==
    [format |-> CommanderOption(argv.format, Str("html")),
     output |-> CommanderOption(argv.output, Str("./reports"))]

\* a || b
Either(a, b) == IF Truthy(a) THEN a ELSE b

\* reportCommand(options) from the point where loadConfig has resolved: the
\* reports it writes, each with the directory it is written to
reportCommand(options, config) ==
    LET format    == Either(options.format, config.format)
        outputDir == Either(options.output, config.outputDir)
    IN  (IF format = Str("html") \/ format = Str("both")
         THEN {[reporter |-> "html", dir |-> outputDir]} ELSE {})
        \cup
        (IF format = Str("json") \/ format = Str("both")
         THEN {[reporter |-> "json", dir |-> outputDir]} ELSE {})

InitReport ==
    /\ \E f \in {Undefined, Str("html"), Str("json"), Str("both"), Str("xml")},
          o \in {Undefined, Str("./out")} :
           reportArgv = [format |-> f, output |-> o]
    /\ \E f \in {Str("html"), Str("json"), Str("both")}, d \in {Str("./reports"), Str("./quality")} :
           reportConfig = [format |-> f, outputDir |-> d]
    /\ reportOptions = NotCalled
    /\ reportWritten = {}
    /\ reportPc = "argv"
    /\ heap = <<>>
    /\ MergeIdle
    /\ LoaderIdle
    /\ ValidateIdle
    /\ SonarIdle
    /\ BuilderIdle
    /\ PrettierIdle
    /\ EjectIdle
    /\ CheckIdle

ReportFrame ==
    /\ UNCHANGED <<heap, reportArgv, reportConfig>>
    /\ UNCHANGED <<mergeVars, loaderVars, validateVars, sonarVars, builderVars, prettierVars,
                   ejectVars, checkVars>>

\* program.parse(): commander builds the options and calls the action
ParseReportArgv ==
    /\ reportPc = "argv"
    /\ reportOptions' = ReportOptions(reportArgv)
    /\ reportPc' = "parsed"
    /\ UNCHANGED reportWritten
    /\ ReportFrame

\* the action: await reportCommand(options)
ReportCommand ==
    /\ reportPc = "parsed"
    /\ reportWritten' = reportCommand(reportOptions, reportConfig)
    /\ reportPc' = "done"
    /\ UNCHANGED reportOptions
    /\ ReportFrame

NextReport == ParseReportArgv \/ ReportCommand

SpecReport == InitReport /\ [][NextReport]_vars

\* the format in effect: the one given on the command line, otherwise the
\* configuration's
EffectiveFormat ==
    IF reportArgv.format # Undefined THEN reportArgv.format ELSE reportConfig.format

EffectiveOutputDir ==
    IF reportArgv.output # Undefined THEN reportArgv.output ELSE reportConfig.outputDir

\* C25: when the report command has run, the HTML report has been written
\* exactly if the format in effect is html or both, the JSON report exactly
\* if it is json or both, and each of them to the output directory in
\* effect; the format and the directory in effect are those of the command
\* line where given and those of sonarqube.report otherwise.
C25_FormatInEffect ==
    reportPc = "done" =>
       /\ (\E w \in reportWritten : w.reporter = "html")
             <=> EffectiveFormat \in {Str("html"), Str("both")}
       /\ (\E w \in reportWritten : w.reporter = "json")
             <=> EffectiveFormat \in {Str("json"), Str("both")}
       /\ \A w \in reportWritten : w.dir = EffectiveOutputDir

----------------------------------------------------------------------------
(* src/src/cli/commands/check.ts: checkCommand *)

\* most errors, warnings or unformatted files one tool reports
MaxFindings == 1

\* how a tool's run ends: it throws, or it returns its counts
Threw == [threw |-> TRUE, errorCount |-> 0, warningCount |-> 0, unformatted |-> 0]

\* runEslint returns success: totalErrors === 0
EslintRuns ==
    {Threw} \cup
    {[threw |-> FALSE, errorCount |-> e, warningCount |-> w, unformatted |-> 0] :
        e \in 0..MaxFindings, w \in 0..MaxFindings}

\* checkFormatting returns success: unformattedFiles.length === 0
PrettierRuns ==
    {Threw} \cup
    {[threw |-> FALSE, errorCount |-> 0, warningCount |-> 0, unformatted |-> u] :
        u \in 0..MaxFindings}

InitCheck ==
    /\ \E e \in BOOLEAN, s \in BOOLEAN, p \in BOOLEAN :
           checkConfig = [eslint |-> e, sonarqube |-> s, prettier |-> p]
    /\ \E e \in EslintRuns, p \in PrettierRuns : toolRuns = [eslint |-> e, prettier |-> p]
    /\ checkResult = [success |-> TRUE, totalErrors |-> 0, totalWarnings |-> 0,
                      eslint |-> "none", prettier |-> "none"]
    /\ exitCode = 0
    /\ checkPc = "eslint"
    /\ heap = <<>>
    /\ MergeIdle
    /\ LoaderIdle
    /\ ValidateIdle
    /\ SonarIdle
    /\ BuilderIdle
    /\ PrettierIdle
    /\ EjectIdle
    /\ ReportIdle

CheckFrame ==
    /\ UNCHANGED <<heap, checkConfig, toolRuns>>
    /\ UNCHANGED <<mergeVars, loaderVars, validateVars, sonarVars, builderVars, prettierVars,
                   ejectVars, reportVars>>

\* catch (error) { spinner.fail(...); logger.error(...); }
Catch(res) == res

\* step 1: runEslint when eslint or sonarqube is enabled
CheckEslint ==
    /\ checkPc = "eslint"
    /\ IF checkConfig.eslint \/ checkConfig.sonarqube
       THEN IF toolRuns.eslint.threw
            THEN checkResult' = Catch(checkResult)
            ELSE checkResult' =
                    [checkResult EXCEPT
                        !.eslint = IF toolRuns.eslint.errorCount = 0 THEN "passed" ELSE "failed",
                        !.totalErrors = @ + toolRuns.eslint.errorCount,
                        !.totalWarnings = @ + toolRuns.eslint.warningCount,
                        !.success = IF toolRuns.eslint.errorCount = 0 THEN @ ELSE FALSE]
       ELSE checkResult' = checkResult
    /\ checkPc' = "prettier"
    /\ UNCHANGED exitCode
    /\ CheckFrame

\* step 2: checkFormatting when prettier is enabled
CheckPrettier ==
    /\ checkPc = "prettier"
    /\ IF checkConfig.prettier
       THEN IF toolRuns.prettier.threw
            THEN checkResult' = Catch(checkResult)
            ELSE checkResult' =
                    [checkResult EXCEPT
                        !.prettier = IF toolRuns.prettier.unformatted = 0 THEN "passed"
                                     ELSE "failed",
                        !.success = IF toolRuns.prettier.unformatted = 0 THEN @ ELSE FALSE]
       ELSE checkResult' = checkResult
    /\ checkPc' = "exit"
    /\ UNCHANGED exitCode
    /\ CheckFrame

\* if (!result.overall.success) process.exitCode = 1
CheckExit ==
    /\ checkPc = "exit"
    /\ exitCode' = IF ~checkResult.success THEN 1 ELSE exitCode
    /\ checkPc' = "done"
    /\ UNCHANGED checkResult
    /\ CheckFrame

NextCheck == CheckEslint \/ CheckPrettier \/ CheckExit

SpecCheck == InitCheck /\ [][NextCheck]_vars

\* an enabled tool reported errors or unformatted files, or its run threw
SomeToolFailed ==
    \/ /\ checkConfig.eslint \/ checkConfig.sonarqube
       /\ toolRuns.eslint.threw \/ toolRuns.eslint.errorCount > 0
    \/ /\ checkConfig.prettier
       /\ toolRuns.prettier.threw \/ toolRuns.prettier.unformatted > 0

\* C29: when checkCommand has ended, overall.success is false and the exit
\* code is 1 if an enabled tool reported errors or unformatted files or its
\* run threw; otherwise overall.success is true and the exit code is as it
\* was.
C29_ExitCodeReflectsFailure ==
    checkPc = "done" =>
       IF SomeToolFailed
       THEN ~checkResult.success /\ exitCode = 1
       ELSE checkResult.success /\ exitCode = 0

====
